---- MODULE Spec2Model ----
(***************************************************************************)
(* Hani, a modal terminal markdown editor: the Bubbletea editor (Model)   *)
(* and the hand-rolled terminal editor (DIYEditor).  Text is a sequence   *)
(* of one-character strings, a line is a text without "\n", the buffer     *)
(* is a sequence of lines.  Go indexes rows and columns from 0; TLA+       *)
(* sequences from 1, so line row of the buffer is content[row + 1].        *)
(***************************************************************************)
EXTENDS Integers, Sequences, FiniteSets, TLC

\* impl:  which editor the session runs, "bubbletea" or "diy"
\* onDisk: the file a constructor is run on, as it finds it (kept by the
\*        specification of the constructors only)
\* ed:    the editor object (Model of the Bubbletea editor, DIYEditor of the
\*        other), a record of its fields: filename, content, cursor, mode,
\*        activeTab, width, height, viewport, previewOffset, saved, statusMsg,
\*        and for Model also cursorBlink, codeBlocks, codeBlocksDirty
\* phase: "start" before the constructor ran, "new" once it returned, "running"
\*        once an event was handled, "quit" once a quit key ended the loop
\* prev:  the editor object before the events of last (history)
\* last:  the events handled since prev, oldest first (history, kept by the
\*        specifications that trace single operations)
VARIABLES impl, onDisk, ed, phase, prev, last

vars == <<impl, onDisk, ed, phase, prev, last>>

(* ------------------------------ bounds -------------------------------- *)

\* most lines the buffer may hold; an edit that would exceed it is not taken
MaxLines == 3
\* most characters a line may hold; an edit that would exceed it is not taken
MaxLineLen == 1
\* most lines the markdown renderer returns for the preview
MaxRendered == 1
\* the preview is scrolled no further than this
MaxPreview == 1

(* ----------------------------- constants ------------------------------ *)

\* a paste holding a fence marker is chunked above this many lines
ChunkThreshold == 10

ModeNormal == "Normal"
ModeInsert == "Insert"
TabEditor == "Editor"
TabPreview == "Preview"
NL == "\n"

Min(a, b) == IF a < b THEN a ELSE b
Max(a, b) == IF a > b THEN a ELSE b

(* ------------------------- strings and slices ------------------------- *)

\* s[:n] and s[n:] of Go, for 0 <= n <= len(s)
Take(s, n) == SubSeq(s, 1, n)
Drop(s, n) == SubSeq(s, n + 1, Len(s))

\* strings.Split(text, "\n"): always at least one piece
RECURSIVE SplitFrom(_, _, _)
SplitFrom(text, i, cur) ==
    IF i > Len(text) THEN <<cur>>
    ELSE IF text[i] = NL THEN <<cur>> \o SplitFrom(text, i + 1, <<>>)
    ELSE SplitFrom(text, i + 1, Append(cur, text[i]))
Split(text) == SplitFrom(text, 1, <<>>)

\* strings.Join(lines, "\n")
RECURSIVE Join(_)
Join(lines) ==
    IF Len(lines) = 0 THEN <<>>
    ELSE IF Len(lines) = 1 THEN lines[1]
    ELSE lines[1] \o <<NL>> \o Join(Tail(lines))

\* strings.TrimRight(text, "\n")
RECURSIVE TrimRightNL(_)
TrimRightNL(text) ==
    IF Len(text) > 0 /\ text[Len(text)] = NL
    THEN TrimRightNL(Take(text, Len(text) - 1))
    ELSE text

Pos(r, c) == [row |-> r, col |-> c]
View(r, c) == [offsetRow |-> r, offsetCol |-> c]

\* the line at 0-based row r
LineAt(lines, r) == lines[r + 1]

\* append(lines[:r], append([]string{l}, lines[r:]...)...): l becomes row r
InsertLine(lines, r, l) == Take(lines, r) \o <<l>> \o Drop(lines, r)
\* append(lines[:r], lines[r+1:]...): row r is removed
RemoveLine(lines, r) == Take(lines, r) \o Drop(lines, r + 1)
\* lines[r] = l
SetLine(lines, r, l) == [lines EXCEPT ![r + 1] = l]


(* --------------------- Bubbletea editor: bounds ----------------------- *)

\* row and column clamps of ensureCursorBounds; n >= 1 lines, maxCol = len(line)
BoundRow(row, n) == IF row < 0 THEN 0 ELSE IF row >= n THEN n - 1 ELSE row
BoundCol(col, maxCol) == IF col < 0 THEN 0 ELSE IF col > maxCol THEN maxCol ELSE col

\* the cursor of ensureCursorBounds on row (already clamped) of lines
CursorIn(lines, row, col) == Pos(row, BoundCol(col, Len(LineAt(lines, row))))

\* ensureCursorBounds once the buffer is known to be lines
Bounded(m, lines) ==
    [m EXCEPT !.content = lines,
              !.cursor = CursorIn(lines, BoundRow(m.cursor.row, Len(lines)), m.cursor.col)]

ensureCursorBounds(m) ==
    Bounded(m, IF Len(m.content) = 0 THEN << <<>> >> ELSE m.content)

\* contentHeight and contentWidth of adjustViewport
ContentHeight(h) == IF h - 3 < 1 THEN 1 ELSE h - 3
ContentWidth(w) == IF w - 3 < 1 THEN 1 ELSE w - 3

\* the offset that follows the cursor: scroll back to pos when it is before
\* the window, forward when it is past its end
\* a faulty Follow: the window moves one step towards the cursor per call
Follow_OneStep(offset, pos, extent) ==
    IF pos < offset THEN offset - 1
    ELSE IF pos >= offset + extent THEN offset + 1
    ELSE offset
Follow(offset, pos, extent) ==
    IF pos < offset THEN pos
    ELSE IF pos >= offset + extent THEN pos - extent + 1
    ELSE offset

\* the offset kept within 0..maxOffset, maxOffset >= 0
ClampOffset(offset, maxOffset) ==
    IF offset < 0 THEN 0 ELSE IF offset > maxOffset THEN maxOffset ELSE offset

\* adjustViewport after its ensureCursorBounds
Scrolled(m) ==
    [m EXCEPT !.viewport =
        View(ClampOffset(Follow(m.viewport.offsetRow, m.cursor.row, ContentHeight(m.height)),
                         Max(0, Len(m.content) - ContentHeight(m.height))),
             Max(0, Follow(m.viewport.offsetCol, m.cursor.col, ContentWidth(m.width))))]

adjustViewport(m) == Scrolled(ensureCursorBounds(m))

(* --------------------------- word motion ------------------------------ *)

isWhitespace(c) == c = " " \/ c = "\t" \/ c = NL \/ c = "\r"

\* for col < len(line) && !isWhitespace(line[col]) { col++ }
RECURSIVE SkipWordFwd(_, _)
SkipWordFwd(line, col) ==
    IF col < Len(line) /\ ~isWhitespace(line[col + 1])
    THEN SkipWordFwd(line, col + 1) ELSE col

\* for col < len(line) && isWhitespace(line[col]) { col++ }
RECURSIVE SkipSpaceFwd(_, _)
SkipSpaceFwd(line, col) ==
    IF col < Len(line) /\ isWhitespace(line[col + 1])
    THEN SkipSpaceFwd(line, col + 1) ELSE col

\* for col > 0 && col < len(line) && isWhitespace(line[col]) { col-- }
RECURSIVE SkipSpaceBack(_, _)
SkipSpaceBack(line, col) ==
    IF col > 0 /\ col < Len(line) /\ isWhitespace(line[col + 1])
    THEN SkipSpaceBack(line, col - 1) ELSE col

\* for col > 0 && col < len(line) && !isWhitespace(line[col]) { col-- }
RECURSIVE SkipWordBack(_, _)
SkipWordBack(line, col) ==
    IF col > 0 /\ col < Len(line) /\ ~isWhitespace(line[col + 1])
    THEN SkipWordBack(line, col - 1) ELSE col

\* a faulty nextWord: the leading whitespace of the next line is not skipped
nextWord_NoLeadingSkip(lines, cur) ==
    IF cur.row >= Len(lines)
    THEN IF Len(lines) > 0
         THEN Pos(Len(lines) - 1, Len(lines[Len(lines)]))
         ELSE Pos(0, 0)
    ELSE
      LET line == LineAt(lines, cur.row)
          c1 == SkipWordFwd(line, cur.col)
          c2 == SkipSpaceFwd(line, c1)
      IN  IF c2 >= Len(line) /\ cur.row < Len(lines) - 1
          THEN Pos(cur.row + 1, 0)
          ELSE Pos(cur.row, c2)

\* a faulty nextWord: it never leaves the line of the cursor
nextWord_StaysOnLine(lines, cur) ==
    IF cur.row >= Len(lines)
    THEN IF Len(lines) > 0
         THEN Pos(Len(lines) - 1, Len(lines[Len(lines)]))
         ELSE Pos(0, 0)
    ELSE Pos(cur.row,
             SkipSpaceFwd(LineAt(lines, cur.row),
                          SkipWordFwd(LineAt(lines, cur.row), cur.col)))

nextWord(lines, cur) ==
    IF cur.row >= Len(lines)
    THEN IF Len(lines) > 0
         THEN Pos(Len(lines) - 1, Len(lines[Len(lines)]))
         ELSE Pos(0, 0)
    ELSE
      LET line == LineAt(lines, cur.row)
          c1 == SkipWordFwd(line, cur.col)
          c2 == SkipSpaceFwd(line, c1)
      IN  IF c2 >= Len(line) /\ cur.row < Len(lines) - 1
          THEN Pos(cur.row + 1, SkipSpaceFwd(LineAt(lines, cur.row + 1), 0))
          ELSE Pos(cur.row, c2)

prevWord(lines, cur) ==
    IF cur.row >= Len(lines) \/ cur.row < 0 THEN Pos(0, 0)
    ELSE
      LET row == IF cur.col > 0 THEN cur.row
                 ELSE IF cur.row > 0 THEN cur.row - 1 ELSE cur.row
          c0 == IF cur.col > 0 THEN cur.col - 1
                ELSE IF cur.row > 0 THEN Len(LineAt(lines, cur.row - 1))
                ELSE cur.col
          line == LineAt(lines, row)
          c1 == SkipSpaceBack(line, c0)
          c2 == SkipWordBack(line, c1)
          c3 == IF c2 > 0 /\ c2 < Len(line) /\ isWhitespace(line[c2 + 1])
                THEN c2 + 1 ELSE c2
      IN  Pos(row, c3)

endOfWord(lines, cur) ==
    IF cur.row >= Len(lines)
    THEN IF Len(lines) > 0
         THEN Pos(Len(lines) - 1, Len(lines[Len(lines)]))
         ELSE Pos(0, 0)
    ELSE
      LET line == LineAt(lines, cur.row)
      IN  IF cur.col < Len(line) /\ ~isWhitespace(line[cur.col + 1])
          THEN LET c1 == SkipWordFwd(line, cur.col)
               IN  Pos(cur.row, IF c1 > 0 THEN c1 - 1 ELSE c1)
          ELSE LET c1 == SkipSpaceFwd(line, cur.col)
                   c2 == SkipWordFwd(line, c1)
               IN  Pos(cur.row, IF c2 > 0 THEN c2 - 1 ELSE c2)


(* ---------------------- Bubbletea editor: keys ------------------------ *)

setStatusMsg(m, msg) == [m EXCEPT !.statusMsg = msg]

\* m.content[m.cursor.row]
CurLine(m) == LineAt(m.content, m.cursor.row)

\* the column kept within the line at row of lines
ColIn(lines, row, col) == IF col > Len(LineAt(lines, row)) THEN Len(LineAt(lines, row)) ELSE col

\* the "dd" case of handleNormalMode once the line is removed: lines is the
\* new buffer
AfterRemove(m, lines, row) ==
    [m EXCEPT !.content = lines, !.cursor = Pos(row, ColIn(lines, row, m.cursor.col)),
              !.saved = FALSE, !.codeBlocksDirty = TRUE]

\* a faulty "dd": the current line is cleared whatever the line count
NormalDD_ClearsLine(m) ==
    [m EXCEPT !.content = SetLine(m.content, m.cursor.row, <<>>), !.cursor.col = 0,
              !.saved = FALSE, !.codeBlocksDirty = TRUE]
\* the "dd" case of handleNormalMode, before its adjustViewport
NormalDD(m) ==
    IF Len(m.content) > 1
    THEN AfterRemove(m, RemoveLine(m.content, m.cursor.row),
                     IF m.cursor.row >= Len(m.content) - 1
                     THEN Len(m.content) - 2 ELSE m.cursor.row)
    ELSE [m EXCEPT !.content = SetLine(m.content, 0, <<>>), !.cursor.col = 0,
                   !.saved = FALSE, !.codeBlocksDirty = TRUE]

\* a faulty "x": the character before the cursor is the one removed
DeleteAt_CharBefore(m) ==
    IF m.cursor.col < Len(CurLine(m))
    THEN [m EXCEPT !.content = SetLine(m.content, m.cursor.row,
                                 Take(CurLine(m), Max(0, m.cursor.col - 1))
                                 \o Drop(CurLine(m), m.cursor.col)),
                   !.saved = FALSE, !.codeBlocksDirty = TRUE]
    ELSE IF m.cursor.row < Len(m.content) - 1
    THEN [m EXCEPT !.content = RemoveLine(
                                 SetLine(m.content, m.cursor.row,
                                         CurLine(m) \o LineAt(m.content, m.cursor.row + 1)),
                                 m.cursor.row + 1),
                   !.saved = FALSE, !.codeBlocksDirty = TRUE]
    ELSE m

\* a faulty "x": the deletion also enters Insert mode
DeleteAt_EntersInsert(m) ==
    IF m.cursor.col < Len(CurLine(m))
    THEN [m EXCEPT !.content = SetLine(m.content, m.cursor.row,
                                 Take(CurLine(m), m.cursor.col)
                                 \o Drop(CurLine(m), m.cursor.col + 1)),
                   !.mode = ModeInsert,
                   !.saved = FALSE, !.codeBlocksDirty = TRUE]
    ELSE [m EXCEPT !.mode = ModeInsert]
\* the "x" case of handleNormalMode and the "delete" case of handleInsertMode
DeleteAt(m) ==
    IF m.cursor.col < Len(CurLine(m))
    THEN [m EXCEPT !.content = SetLine(m.content, m.cursor.row,
                                 Take(CurLine(m), m.cursor.col)
                                 \o Drop(CurLine(m), m.cursor.col + 1)),
                   !.saved = FALSE, !.codeBlocksDirty = TRUE]
    ELSE IF m.cursor.row < Len(m.content) - 1
    THEN [m EXCEPT !.content = RemoveLine(
                                 SetLine(m.content, m.cursor.row,
                                         CurLine(m) \o LineAt(m.content, m.cursor.row + 1)),
                                 m.cursor.row + 1),
                   !.saved = FALSE, !.codeBlocksDirty = TRUE]
    ELSE m

\* cursor down / up with the column clamped to the new line
MoveDown(m) ==
    IF m.cursor.row < Len(m.content) - 1
    THEN [m EXCEPT !.cursor = Pos(m.cursor.row + 1,
                                  ColIn(m.content, m.cursor.row + 1, m.cursor.col))]
    ELSE m
MoveUp(m) ==
    IF m.cursor.row > 0
    THEN [m EXCEPT !.cursor = Pos(m.cursor.row - 1,
                                  ColIn(m.content, m.cursor.row - 1, m.cursor.col))]
    ELSE m

\* the cases of handleNormalMode that end with adjustViewport, before it
NormalMove(m, key) ==
    CASE key \in {"h", "left"} ->
           IF m.cursor.col > 0 THEN [m EXCEPT !.cursor.col = m.cursor.col - 1] ELSE m
      [] key \in {"j", "down"} -> MoveDown(m)
      [] key \in {"k", "up"} -> MoveUp(m)
      [] key \in {"l", "right"} ->
           IF m.cursor.row < Len(m.content) /\ m.cursor.col < Len(CurLine(m))
           THEN [m EXCEPT !.cursor.col = m.cursor.col + 1] ELSE m
      [] key = "0" -> [m EXCEPT !.cursor.col = 0]
      [] key = "$" -> [m EXCEPT !.cursor.col = Len(CurLine(m))]
      [] key = "gg" -> [m EXCEPT !.cursor = Pos(0, 0)]
      [] key = "G" -> [m EXCEPT !.cursor = Pos(Len(m.content) - 1,
                                               Len(m.content[Len(m.content)]))]
      [] key = "o" ->
           [m EXCEPT !.mode = ModeInsert,
                     !.content = InsertLine(m.content, m.cursor.row + 1, <<>>),
                     !.cursor = Pos(m.cursor.row + 1, 0),
                     !.saved = FALSE, !.codeBlocksDirty = TRUE]
      [] key = "O" ->
           [m EXCEPT !.mode = ModeInsert,
                     !.content = InsertLine(m.content, m.cursor.row, <<>>),
                     !.cursor.col = 0,
                     !.saved = FALSE, !.codeBlocksDirty = TRUE]
      [] key = "dd" -> NormalDD(m)
      [] key = "w" -> [m EXCEPT !.cursor = nextWord(m.content, m.cursor)]
      [] key = "b" -> [m EXCEPT !.cursor = prevWord(m.content, m.cursor)]
      [] key = "e" -> [m EXCEPT !.cursor = endOfWord(m.content, m.cursor)]

\* the keys of handleNormalMode whose case ends with adjustViewport
NormalMoveKeys ==
    {"h", "left", "j", "down", "k", "up", "l", "right", "0", "$", "gg", "G",
     "o", "O", "dd", "w", "b", "e"}

\* handleNormalMode after its ensureCursorBounds
NormalKey(m, key) ==
    IF key \in NormalMoveKeys THEN adjustViewport(NormalMove(m, key))
    ELSE CASE key = "i" -> [m EXCEPT !.mode = ModeInsert]
           [] key = "a" ->
                [m EXCEPT !.mode = ModeInsert,
                          !.cursor.col = IF m.cursor.col < Len(CurLine(m))
                                         THEN m.cursor.col + 1 ELSE m.cursor.col]
           [] key = "A" -> [m EXCEPT !.mode = ModeInsert, !.cursor.col = Len(CurLine(m))]
           [] key = "x" -> DeleteAt(m)
           [] OTHER -> m

handleNormalMode(m, key) == NormalKey(ensureCursorBounds(m), key)

\* the backquote character (a backquote cannot be written in a TLA+ string)
BQ == "'"
\* the fence marker: three backquotes
Fence == <<BQ, BQ, BQ>>

\* strings.Contains(clipboard, Fence)
RECURSIVE ContainsFence(_)
ContainsFence(text) ==
    IF Len(text) < 3 THEN FALSE
    ELSE IF Take(text, 3) = Fence THEN TRUE
    ELSE ContainsFence(Tail(text))

\* a faulty loop: it runs to the last line, which is then inserted twice
RECURSIVE InsertMiddle_ToLast(_, _, _, _)
InsertMiddle_ToLast(buf, row, lines, i) ==
    IF i < Len(lines)
    THEN InsertMiddle_ToLast(InsertLine(buf, row + i, lines[i + 1]), row, lines, i + 1)
    ELSE buf

\* for i := 1; i < len(lines)-1; i++ { insert lines[i] as row row+i }
RECURSIVE InsertMiddle(_, _, _, _)
InsertMiddle(buf, row, lines, i) ==
    IF i < Len(lines) - 1
    THEN InsertMiddle(InsertLine(buf, row + i, lines[i + 1]), row, lines, i + 1)
    ELSE buf

\* the buffer of the chunked paste: the first line cut at the cursor, the
\* middle lines, then the last line with the rest of the cut line
ChunkedContent(buf, row, col, lines) ==
    IF Len(lines) > 1
    THEN InsertLine(InsertMiddle(SetLine(buf, row, Take(LineAt(buf, row), col) \o lines[1]),
                                 row, lines, 1),
                    row + Len(lines) - 1,
                    lines[Len(lines)] \o Drop(LineAt(buf, row), col))
    ELSE InsertMiddle(SetLine(buf, row, Take(LineAt(buf, row), col) \o lines[1]),
                      row, lines, 1)

\* the chunked branch of the paste case of handleInsertMode
PasteChunked(m, lines) ==
    [m EXCEPT !.content = ChunkedContent(m.content, m.cursor.row, m.cursor.col, lines),
              !.cursor = Pos(m.cursor.row + Len(lines) - 1, Len(lines[Len(lines)])),
              !.saved = FALSE]

\* a faulty multi-line paste: the middle lines run to the last pasted line
PastedContent_MiddleToLast(buf, row, col, lines) ==
    Take(buf, row)
    \o <<Take(LineAt(buf, row), col) \o lines[1]>>
    \o (IF Len(lines) > 2 THEN SubSeq(lines, 2, Len(lines)) ELSE <<>>)
    \o <<lines[Len(lines)] \o Drop(LineAt(buf, row), col)>>
    \o Drop(buf, row + 1)

\* the buffer of the multi-line paste
PastedContent(buf, row, col, lines) ==
    Take(buf, row)
    \o <<Take(LineAt(buf, row), col) \o lines[1]>>
    \o (IF Len(lines) > 2 THEN SubSeq(lines, 2, Len(lines) - 1) ELSE <<>>)
    \o <<lines[Len(lines)] \o Drop(LineAt(buf, row), col)>>
    \o Drop(buf, row + 1)

\* the plain branch of the paste case after its ensureCursorBounds
PasteInto(m, clipboard, lines) ==
    IF Len(lines) = 1
    THEN [m EXCEPT !.content = SetLine(m.content, m.cursor.row,
                                 Take(CurLine(m), m.cursor.col) \o clipboard
                                 \o Drop(CurLine(m), m.cursor.col)),
                   !.cursor.col = m.cursor.col + Len(clipboard),
                   !.saved = FALSE]
    ELSE [m EXCEPT !.content = PastedContent(m.content, m.cursor.row, m.cursor.col, lines),
                   !.cursor = Pos(m.cursor.row + Len(lines) - 1, Len(lines[Len(lines)])),
                   !.saved = FALSE]

\* the plain branch of the paste case of handleInsertMode
PastePlain(m, clipboard) == PasteInto(ensureCursorBounds(m), clipboard, Split(clipboard))

\* a faulty paste: an empty clipboard is pasted like a text
Paste_EmptyText(m, clipboard) ==
    IF ContainsFence(clipboard)
    THEN IF Len(Split(clipboard)) > ChunkThreshold
         THEN PasteChunked(setStatusMsg(m, "Pasting code block (chunked approach)"),
                           Split(clipboard))
         ELSE PastePlain(setStatusMsg(m, "Pasting code block (chunked approach)"),
                         clipboard)
    ELSE PastePlain(m, clipboard)

\* the paste case of handleInsertMode; clipboard is what getClipboard returned
Paste(m, clipboard) ==
    IF clipboard = <<>> THEN m
    ELSE IF ContainsFence(clipboard)
    THEN IF Len(Split(clipboard)) > ChunkThreshold
         THEN PasteChunked(setStatusMsg(m, "Pasting code block (chunked approach)"),
                           Split(clipboard))
         ELSE PastePlain(setStatusMsg(m, "Pasting code block (chunked approach)"),
                         clipboard)
    ELSE PastePlain(m, clipboard)

\* a faulty "enter": the rest of the line is put above the cut line
InsertEnter_Above(m) ==
    [m EXCEPT !.content = InsertLine(SetLine(m.content, m.cursor.row,
                                             Take(CurLine(m), m.cursor.col)),
                                     m.cursor.row, Drop(CurLine(m), m.cursor.col)),
              !.cursor = Pos(m.cursor.row + 1, 0),
              !.saved = FALSE, !.codeBlocksDirty = TRUE]

\* a faulty "enter": the cursor keeps its column on the new line
InsertEnter_KeepsCol(m) ==
    [m EXCEPT !.content = InsertLine(SetLine(m.content, m.cursor.row,
                                             Take(CurLine(m), m.cursor.col)),
                                     m.cursor.row + 1, Drop(CurLine(m), m.cursor.col)),
              !.cursor = Pos(m.cursor.row + 1, m.cursor.col),
              !.saved = FALSE, !.codeBlocksDirty = TRUE]

\* the "enter" case of handleInsertMode, before its adjustViewport
InsertEnter(m) ==
    [m EXCEPT !.content = InsertLine(SetLine(m.content, m.cursor.row,
                                             Take(CurLine(m), m.cursor.col)),
                                     m.cursor.row + 1, Drop(CurLine(m), m.cursor.col)),
              !.cursor = Pos(m.cursor.row + 1, 0),
              !.saved = FALSE, !.codeBlocksDirty = TRUE]

\* a faulty "backspace": at column 0 the cursor is put at the end of the
\* joined line, its length being read after the join
InsertBackspace_AfterJoin(m) ==
    IF m.cursor.col > 0
    THEN [m EXCEPT !.content = SetLine(m.content, m.cursor.row,
                                 Take(CurLine(m), m.cursor.col - 1)
                                 \o Drop(CurLine(m), m.cursor.col)),
                   !.cursor.col = m.cursor.col - 1,
                   !.saved = FALSE, !.codeBlocksDirty = TRUE]
    ELSE IF m.cursor.row > 0
    THEN [m EXCEPT !.content = RemoveLine(
                                 SetLine(m.content, m.cursor.row - 1,
                                         LineAt(m.content, m.cursor.row - 1) \o CurLine(m)),
                                 m.cursor.row),
                   !.cursor = Pos(m.cursor.row - 1,
                                  Len(LineAt(m.content, m.cursor.row - 1) \o CurLine(m))),
                   !.saved = FALSE, !.codeBlocksDirty = TRUE]
    ELSE m

\* a faulty "backspace": at column 0 the cursor goes to the end of the line
\* above and the lines are not joined
InsertBackspace_NoJoin(m) ==
    IF m.cursor.col > 0
    THEN [m EXCEPT !.content = SetLine(m.content, m.cursor.row,
                                 Take(CurLine(m), m.cursor.col - 1)
                                 \o Drop(CurLine(m), m.cursor.col)),
                   !.cursor.col = m.cursor.col - 1,
                   !.saved = FALSE, !.codeBlocksDirty = TRUE]
    ELSE IF m.cursor.row > 0
    THEN [m EXCEPT !.cursor = Pos(m.cursor.row - 1, Len(LineAt(m.content, m.cursor.row - 1))),
                   !.saved = FALSE, !.codeBlocksDirty = TRUE]
    ELSE m

\* the "backspace" case of handleInsertMode, before its adjustViewport
InsertBackspace(m) ==
    IF m.cursor.col > 0
    THEN [m EXCEPT !.content = SetLine(m.content, m.cursor.row,
                                 Take(CurLine(m), m.cursor.col - 1)
                                 \o Drop(CurLine(m), m.cursor.col)),
                   !.cursor.col = m.cursor.col - 1,
                   !.saved = FALSE, !.codeBlocksDirty = TRUE]
    ELSE IF m.cursor.row > 0
    THEN [m EXCEPT !.content = RemoveLine(
                                 SetLine(m.content, m.cursor.row - 1,
                                         LineAt(m.content, m.cursor.row - 1) \o CurLine(m)),
                                 m.cursor.row),
                   !.cursor = Pos(m.cursor.row - 1, Len(LineAt(m.content, m.cursor.row - 1))),
                   !.saved = FALSE, !.codeBlocksDirty = TRUE]
    ELSE m

\* a faulty typing case: the buffer is not marked as changed
InsertChar_KeepsSaved(m, key) ==
    IF Len(key) = 1
    THEN [m EXCEPT !.content = SetLine(m.content, m.cursor.row,
                                 Take(CurLine(m), m.cursor.col) \o <<key>>
                                 \o Drop(CurLine(m), m.cursor.col)),
                   !.cursor.col = m.cursor.col + 1,
                   !.codeBlocksDirty = TRUE]
    ELSE m

\* the default case of handleInsertMode: a key of one byte is typed
InsertChar(m, key) ==
    IF Len(key) = 1
    THEN [m EXCEPT !.content = SetLine(m.content, m.cursor.row,
                                 Take(CurLine(m), m.cursor.col) \o <<key>>
                                 \o Drop(CurLine(m), m.cursor.col)),
                   !.cursor.col = m.cursor.col + 1,
                   !.saved = FALSE, !.codeBlocksDirty = TRUE]
    ELSE m

\* a faulty "esc": the cursor stays behind the last typed character
InsertEsc_KeepsCol(m) == [m EXCEPT !.mode = ModeNormal]

\* the "esc" case of handleInsertMode
InsertEsc(m) ==
    [m EXCEPT !.mode = ModeNormal,
              !.cursor.col = IF m.cursor.col > 0 THEN m.cursor.col - 1 ELSE m.cursor.col]

\* the cases of handleInsertMode that end with adjustViewport, before it
InsertMove(m, key) ==
    CASE key = "left" -> [m EXCEPT !.cursor.col = Max(0, m.cursor.col - 1)]
      [] key = "right" ->
           IF m.cursor.col < Len(CurLine(m))
           THEN [m EXCEPT !.cursor.col = m.cursor.col + 1] ELSE m
      [] key = "up" -> MoveUp(m)
      [] key = "down" -> MoveDown(m)
      [] key = "enter" -> InsertEnter(m)
      [] key = "backspace" -> InsertBackspace(m)

\* the keys of handleInsertMode whose case ends with adjustViewport
InsertMoveKeys == {"left", "right", "up", "down", "enter", "backspace"}

handleInsertMode(m, key, clipboard) ==
    IF key \in InsertMoveKeys THEN adjustViewport(InsertMove(m, key))
    ELSE CASE key = "esc" -> InsertEsc(m)
           [] key = "delete" -> DeleteAt(m)
           [] key \in {"ctrl+v", "ctrl+p", "shift+insert"} -> Paste(m, clipboard)
           [] OTHER -> InsertChar(m, key)

\* strings.TrimSpace(markdown) == ""
IsBlank(text) == \A i \in 1..Len(text) : isWhitespace(text[i])

\* rendered: the number of lines glamour returned, 0 when there is no renderer
\* or Render failed
handlePreviewMode(m, key, rendered) ==
    LET canRender == ~IsBlank(Join(m.content)) /\ rendered > 0
        contentHeight == m.height - 3
    IN  IF m.activeTab # TabPreview THEN m
        ELSE CASE key \in {"j", "down"} ->
                    IF canRender /\ m.previewOffset < Max(0, rendered - contentHeight)
                    THEN [m EXCEPT !.previewOffset = m.previewOffset + 1] ELSE m
               [] key \in {"k", "up"} ->
                    IF m.previewOffset > 0
                    THEN [m EXCEPT !.previewOffset = m.previewOffset - 1] ELSE m
               [] key = "g" -> [m EXCEPT !.previewOffset = 0]
               [] key = "G" ->
                    IF canRender
                    THEN [m EXCEPT !.previewOffset = Max(0, rendered - contentHeight)]
                    ELSE m
               [] OTHER -> m

\* writeOk: whether os.WriteFile of the buffer succeeded
saveFile(m, writeOk) ==
    LET m1 == IF m.filename = "" THEN [m EXCEPT !.filename = "untitled.md"] ELSE m
    IN  IF ~writeOk THEN setStatusMsg(m1, "Error saving file")
        ELSE setStatusMsg([m1 EXCEPT !.saved = TRUE, !.codeBlocksDirty = TRUE],
                          "File saved")

\* a faulty tab switch: the preview is shown whichever tab was active
ToggleTab_ToPreview(m) == [m EXCEPT !.activeTab = TabPreview]

\* the "tab" and "shift+tab" cases of handleKeyPress, the case 9 of handleKey
ToggleTab(m) ==
    [m EXCEPT !.activeTab = IF m.activeTab = TabEditor THEN TabPreview ELSE TabEditor]

\* a faulty dispatch: the keys of the Preview tab go to the editor handlers
handleKeyPress_EditorAlways(m, key, env) ==
    CASE key \in {"ctrl+c", "ctrl+q"} -> m
      [] key = "ctrl+s" -> saveFile(m, env.writeOk)
      [] key = "tab" -> ToggleTab(m)
      [] key = "shift+tab" -> ToggleTab(m)
      [] OTHER ->
           IF m.mode = ModeNormal THEN handleNormalMode(m, key)
           ELSE handleInsertMode(m, key, env.clipboard)

\* env: what the surroundings answer during the event
\*   clipboard (getClipboard), rendered (glamour), writeOk (os.WriteFile)
handleKeyPress(m, key, env) ==
    CASE key \in {"ctrl+c", "ctrl+q"} -> m
      [] key = "ctrl+s" -> saveFile(m, env.writeOk)
      [] key = "tab" -> ToggleTab(m)
      [] key = "shift+tab" -> ToggleTab(m)
      [] OTHER ->
           IF m.activeTab = TabEditor
           THEN IF m.mode = ModeNormal THEN handleNormalMode(m, key)
                ELSE IF m.mode = ModeInsert THEN handleInsertMode(m, key, env.clipboard)
                ELSE m
           ELSE IF m.activeTab = TabPreview THEN handlePreviewMode(m, key, env.rendered)
           ELSE m

(* ------------------- Bubbletea editor: code spans --------------------- *)

\* strings.TrimSpace
RECURSIVE TrimSpace(_)
TrimSpace(text) ==
    IF Len(text) = 0 THEN text
    ELSE IF isWhitespace(text[1]) THEN TrimSpace(Tail(text))
    ELSE IF isWhitespace(text[Len(text)]) THEN TrimSpace(Take(text, Len(text) - 1))
    ELSE text

\* strings.CutPrefix(line, Fence): found
HasFencePrefix(line) == Len(line) >= 3 /\ Take(line, 3) = Fence

\* a faulty loop: a block still open at the end of the buffer is dropped
RECURSIVE ScanBlocks_DropsUnclosed(_, _, _, _, _)
ScanBlocks_DropsUnclosed(lines, i, inCodeBlock, cur, blocks) ==
    IF i >= Len(lines)
    THEN blocks
    ELSE IF HasFencePrefix(LineAt(lines, i))
    THEN IF ~inCodeBlock
         THEN ScanBlocks_DropsUnclosed(lines, i + 1, TRUE,
                         [start |-> i, end |-> 0,
                          lang |-> TrimSpace(Drop(LineAt(lines, i), 3))],
                         blocks)
         ELSE ScanBlocks_DropsUnclosed(lines, i + 1, FALSE, cur,
                         Append(blocks, [cur EXCEPT !.end = i]))
    ELSE ScanBlocks_DropsUnclosed(lines, i + 1, inCodeBlock, cur, blocks)

\* the loop of rebuildCodeBlocks from 0-based line i on; cur is currentBlock
RECURSIVE ScanBlocks(_, _, _, _, _)
ScanBlocks(lines, i, inCodeBlock, cur, blocks) ==
    IF i >= Len(lines)
    THEN IF inCodeBlock
         THEN Append(blocks, [cur EXCEPT !.end = Len(lines) - 1])
         ELSE blocks
    ELSE IF HasFencePrefix(LineAt(lines, i))
    THEN IF ~inCodeBlock
         THEN ScanBlocks(lines, i + 1, TRUE,
                         [start |-> i, end |-> 0,
                          lang |-> TrimSpace(Drop(LineAt(lines, i), 3))],
                         blocks)
         ELSE ScanBlocks(lines, i + 1, FALSE, cur,
                         Append(blocks, [cur EXCEPT !.end = i]))
    ELSE ScanBlocks(lines, i + 1, inCodeBlock, cur, blocks)

rebuildCodeBlocks(m) ==
    IF ~m.codeBlocksDirty THEN m
    ELSE [m EXCEPT !.codeBlocks =
                      ScanBlocks(m.content, 0, FALSE,
                                 [start |-> 0, end |-> 0, lang |-> <<>>], <<>>),
                   !.codeBlocksDirty = FALSE]

\* the loop of isInCodeBlock from the i-th span on
RECURSIVE InBlockFrom(_, _, _)
InBlockFrom(blocks, i, lineNum) ==
    IF i > Len(blocks) THEN [found |-> FALSE, lang |-> <<>>]
    ELSE IF lineNum > blocks[i].start /\ lineNum < blocks[i].end
    THEN [found |-> TRUE, lang |-> blocks[i].lang]
    ELSE InBlockFrom(blocks, i + 1, lineNum)

\* a faulty isInCodeBlock: the fence lines count as inside
isInCodeBlock_WithFences(m, lineNum) ==
    IF \E i \in 1..Len(m.codeBlocks) :
          lineNum >= m.codeBlocks[i].start /\ lineNum <= m.codeBlocks[i].end
    THEN InBlockFrom(m.codeBlocks, 1, lineNum + 1)
    ELSE [found |-> FALSE, lang |-> <<>>]

isInCodeBlock(m, lineNum) == InBlockFrom(m.codeBlocks, 1, lineNum)

(* --------------------- Bubbletea editor: loading ---------------------- *)

MaxFileSize == 10 * 1024 * 1024
\* the bytes isBinaryFile looks at
ProbeLen == 512

\* the value of a byte, named by its character or its ASCII control name
ByteOf(c) ==
    CASE c = "NUL" -> 0
      [] c = "SOH" -> 1
      [] c = "ETX" -> 3
      [] c = "BS" -> 8
      [] c = "\t" -> 9
      [] c = NL -> 10
      [] c = "\r" -> 13
      [] c = "DC1" -> 17
      [] c = "DC3" -> 19
      [] c = "SYN" -> 22
      [] c = "ESC" -> 27
      [] c = " " -> 32
      [] c = "$" -> 36
      [] c = "0" -> 48
      [] c = "3" -> 51
      [] c = "A" -> 65
      [] c = "B" -> 66
      [] c = "C" -> 67
      [] c = "D" -> 68
      [] c = "G" -> 71
      [] c = "O" -> 79
      [] c = "Z" -> 90
      [] c = "[" -> 91
      [] c = BQ -> 96
      [] c = "a" -> 97
      [] c = "b" -> 98
      [] c = "d" -> 100
      [] c = "e" -> 101
      [] c = "g" -> 103
      [] c = "h" -> 104
      [] c = "i" -> 105
      [] c = "j" -> 106
      [] c = "k" -> 107
      [] c = "l" -> 108
      [] c = "o" -> 111
      [] c = "w" -> 119
      [] c = "x" -> 120
      [] c = "z" -> 122
      [] c = "~" -> 126
      [] c = "DEL" -> 127

\* a faulty probe: the whole file is looked at
isBinaryFile_WholeFile(data) ==
    IF Len(data) = 0 THEN FALSE
    ELSE \/ \E i \in 1..Len(data) : ByteOf(data[i]) = 0
         \/ 10 * Cardinality({i \in 1..Len(data) :
                                 /\ ByteOf(data[i]) < 32
                                 /\ ByteOf(data[i]) \notin {9, 10, 13}})
              > 3 * Len(data)

\* float64(nonPrintable)/float64(checkLen) > 0.3 is 10*nonPrintable > 3*checkLen
\* for the lengths below 2^53 that a probe window has
isBinaryFile(data) ==
    IF Len(data) = 0 THEN FALSE
    ELSE LET checkLen == Min(Len(data), ProbeLen)
             nonPrintable == Cardinality({i \in 1..checkLen :
                                 /\ ByteOf(data[i]) < 32
                                 /\ ByteOf(data[i]) \notin {9, 10, 13}})
         IN  \/ \E i \in 1..checkLen : ByteOf(data[i]) = 0
             \/ 10 * nonPrintable > 3 * checkLen

\* a faulty constructor: the bytes are not probed, a binary file is loaded
NewModel_LoadsBinary(file) ==
    LET base == [filename |-> file.name, content |-> << <<>> >>,
                 cursor |-> Pos(0, 0), mode |-> ModeNormal,
                 activeTab |-> TabEditor, width |-> 0, height |-> 0,
                 viewport |-> View(0, 0), previewOffset |-> 0,
                 saved |-> FALSE, statusMsg |-> "", cursorBlink |-> TRUE,
                 codeBlocks |-> <<>>, codeBlocksDirty |-> TRUE]
        split == Split(file.data)
        loaded ==
          IF file.name = "" THEN [base EXCEPT !.saved = TRUE]
          ELSE IF ~file.exists THEN [base EXCEPT !.statusMsg = "New file"]
          ELSE IF file.size > MaxFileSize THEN [base EXCEPT !.statusMsg = "File too large"]
          ELSE IF ~file.readable THEN [base EXCEPT !.statusMsg = "Error reading file"]
          ELSE [base EXCEPT
                  !.content = IF Len(split) > 0 /\ split[Len(split)] = <<>>
                              THEN Take(split, Len(split) - 1) ELSE split,
                  !.saved = TRUE]
    IN  rebuildCodeBlocks(loaded)

\* a faulty constructor: a name without a file starts as saved
NewModel_NewFileSaved(file) ==
    LET base == [filename |-> file.name, content |-> << <<>> >>,
                 cursor |-> Pos(0, 0), mode |-> ModeNormal,
                 activeTab |-> TabEditor, width |-> 0, height |-> 0,
                 viewport |-> View(0, 0), previewOffset |-> 0,
                 saved |-> FALSE, statusMsg |-> "", cursorBlink |-> TRUE,
                 codeBlocks |-> <<>>, codeBlocksDirty |-> TRUE]
        split == Split(file.data)
        loaded ==
          IF file.name = "" THEN [base EXCEPT !.saved = TRUE]
          ELSE IF ~file.exists THEN [base EXCEPT !.statusMsg = "New file", !.saved = TRUE]
          ELSE IF file.size > MaxFileSize THEN [base EXCEPT !.statusMsg = "File too large"]
          ELSE IF ~file.readable THEN [base EXCEPT !.statusMsg = "Error reading file"]
          ELSE IF isBinaryFile(file.data)
               THEN [base EXCEPT !.statusMsg = "Cannot edit binary file"]
          ELSE [base EXCEPT
                  !.content = IF Len(split) > 0 /\ split[Len(split)] = <<>>
                              THEN Take(split, Len(split) - 1) ELSE split,
                  !.saved = TRUE]
    IN  rebuildCodeBlocks(loaded)

\* a file as NewModel finds it: name is the argument; exists is os.Stat's
\* answer, size its info.Size(), readable os.ReadFile's answer, data its bytes
NewModel(file) ==
    LET base == [filename |-> file.name, content |-> << <<>> >>,
                 cursor |-> Pos(0, 0), mode |-> ModeNormal,
                 activeTab |-> TabEditor, width |-> 0, height |-> 0,
                 viewport |-> View(0, 0), previewOffset |-> 0,
                 saved |-> FALSE, statusMsg |-> "", cursorBlink |-> TRUE,
                 codeBlocks |-> <<>>, codeBlocksDirty |-> TRUE]
        split == Split(file.data)
        loaded ==
          IF file.name = "" THEN [base EXCEPT !.saved = TRUE]
          ELSE IF ~file.exists THEN [base EXCEPT !.statusMsg = "New file"]
          ELSE IF file.size > MaxFileSize THEN [base EXCEPT !.statusMsg = "File too large"]
          ELSE IF ~file.readable THEN [base EXCEPT !.statusMsg = "Error reading file"]
          ELSE IF isBinaryFile(file.data)
               THEN [base EXCEPT !.statusMsg = "Cannot edit binary file"]
          ELSE [base EXCEPT
                  !.content = IF Len(split) > 0 /\ split[Len(split)] = <<>>
                              THEN Take(split, Len(split) - 1) ELSE split,
                  !.saved = TRUE]
    IN  rebuildCodeBlocks(loaded)

(* ---------------------- Bubbletea editor: Update ---------------------- *)

Abs(a) == IF a < 0 THEN -a ELSE a

\* the size taken from a tea.WindowSizeMsg; rendererOk: glamour.NewTermRenderer
\* succeeded (it is called when the width changed by more than 10)
Resized(m, w, h, rendererOk) ==
    IF w > 20 /\ Abs(w - m.width) > 10 /\ ~rendererOk
    THEN setStatusMsg([m EXCEPT !.width = w, !.height = h],
                      "Warning: Failed to update renderer")
    ELSE [m EXCEPT !.width = w, !.height = h]

\* the preview offset reset at the end of the tea.WindowSizeMsg case
PreviewReset(m, contentHeight) ==
    IF m.activeTab = TabPreview /\ m.previewOffset > 0 /\ m.previewOffset > contentHeight
    THEN [m EXCEPT !.previewOffset = Max(0, m.previewOffset - contentHeight)]
    ELSE m

\* the tea.WindowSizeMsg case of Update
WindowSize(m, w, h, rendererOk) ==
    PreviewReset(adjustViewport(ensureCursorBounds(Resized(m, w, h, rendererOk))), h - 3)

\* the start of Update: an expired status message is cleared
ClearExpired(m, expired) ==
    IF m.statusMsg # "" /\ expired THEN [m EXCEPT !.statusMsg = ""] ELSE m

\* a faulty type switch: a blink also scrolls the editor back to the top
Dispatch_BlinkScrolls(m, msg, env) ==
    CASE msg.type = "WindowSizeMsg" -> WindowSize(m, msg.width, msg.height, env.rendererOk)
      [] msg.type = "KeyMsg" -> handleKeyPress(m, msg.key, env)
      [] msg.type = "BlinkMsg" ->
           [m EXCEPT !.cursorBlink = ~m.cursorBlink, !.viewport = View(0, 0)]
      [] OTHER -> m

\* the number of tea.Tick commands Update returns with the Model
Ticks(msg) == IF msg.type = "BlinkMsg" THEN 1 ELSE 0

\* the type switch of Update
Dispatch(m, msg, env) ==
    CASE msg.type = "WindowSizeMsg" -> WindowSize(m, msg.width, msg.height, env.rendererOk)
      [] msg.type = "KeyMsg" -> handleKeyPress(m, msg.key, env)
      [] msg.type = "BlinkMsg" -> [m EXCEPT !.cursorBlink = ~m.cursorBlink]
      [] OTHER -> m

\* msg: [type, key, width, height]; env: what the surroundings answer during
\* the event: expired (the status message timed out), clipboard (getClipboard),
\* rendered (glamour), writeOk (os.WriteFile), rendererOk
Update(m, msg, env) == Dispatch(ClearExpired(m, env.expired), msg, env)

(* ------------------------ DIY editor: viewport ------------------------ *)

\* A byte of the DIY editor's input is named by its character, a control
\* byte by its ASCII name ("ESC", "DEL", "DC1" = ctrl+q, "DC3" = ctrl+s,
\* "SYN" = ctrl+v, "BS", "\t" = tab, "\r" = enter); ByteOf is its value.

\* the scroll steps of DIYEditor.adjustViewport: as Follow, with the forward
\* scroll kept from going negative
DIY_Follow(offset, pos, extent) ==
    IF pos < offset THEN pos
    ELSE IF pos >= offset + extent THEN Max(0, pos - extent + 1)
    ELSE offset

\* the bounds checking of DIYEditor.adjustViewport, on a buffer with lines
DIY_Bounded(e) ==
    [e EXCEPT !.cursor = CursorIn(e.content, BoundRow(e.cursor.row, Len(e.content)),
                                  e.cursor.col)]

\* the scrolling of DIYEditor.adjustViewport
DIY_Scrolled(e) ==
    [e EXCEPT !.viewport =
        View(DIY_Follow(e.viewport.offsetRow, e.cursor.row, ContentHeight(e.height)),
             DIY_Follow(e.viewport.offsetCol, e.cursor.col, ContentWidth(e.width)))]

DIY_adjustViewport(e) ==
    IF Len(e.content) = 0
    THEN [e EXCEPT !.content = << <<>> >>, !.cursor = Pos(0, 0)]
    ELSE DIY_Scrolled(DIY_Bounded(e))

(* -------------------------- DIY editor: keys -------------------------- *)

DIY_setStatus(e, msg) == [e EXCEPT !.statusMsg = msg]

\* deleteLine before its adjustViewport
DIY_RemoveCurrent(e) ==
    IF Len(e.content) > 1
    THEN [e EXCEPT !.content = RemoveLine(e.content, e.cursor.row),
                   !.cursor = Pos(BoundRow(e.cursor.row, Len(e.content) - 1),
                                  ColIn(RemoveLine(e.content, e.cursor.row),
                                        BoundRow(e.cursor.row, Len(e.content) - 1),
                                        e.cursor.col)),
                   !.saved = FALSE]
    ELSE [e EXCEPT !.content = SetLine(e.content, 0, <<>>), !.cursor.col = 0,
                   !.saved = FALSE]

DIY_deleteLine(e) == DIY_adjustViewport(DIY_RemoveCurrent(e))

\* a faulty 'x': at the end of a line the next line is not joined
DIY_DeleteAt_NoJoin(e) ==
    IF e.cursor.col < Len(CurLine(e))
    THEN [e EXCEPT !.content = SetLine(e.content, e.cursor.row,
                                 Take(CurLine(e), e.cursor.col)
                                 \o Drop(CurLine(e), e.cursor.col + 1)),
                   !.saved = FALSE]
    ELSE e

\* the 'x' case of handleNormalKey and handleDeleteKey before its adjustViewport
DIY_DeleteAt(e) ==
    IF e.cursor.col < Len(CurLine(e))
    THEN [e EXCEPT !.content = SetLine(e.content, e.cursor.row,
                                 Take(CurLine(e), e.cursor.col)
                                 \o Drop(CurLine(e), e.cursor.col + 1)),
                   !.saved = FALSE]
    ELSE IF e.cursor.row < Len(e.content) - 1
    THEN [e EXCEPT !.content = RemoveLine(
                                 SetLine(e.content, e.cursor.row,
                                         CurLine(e) \o LineAt(e.content, e.cursor.row + 1)),
                                 e.cursor.row + 1),
                   !.saved = FALSE]
    ELSE e

DIY_handleDeleteKey(e) == DIY_adjustViewport(DIY_DeleteAt(e))

\* the cursor moves shared by handleNormalKey and handleArrowKey, before
\* adjustViewport
DIY_Move(e, direction) ==
    CASE direction = "h" ->
           IF e.cursor.col > 0 THEN [e EXCEPT !.cursor.col = e.cursor.col - 1] ELSE e
      [] direction = "j" -> MoveDown(e)
      [] direction = "k" -> MoveUp(e)
      [] direction = "l" ->
           IF e.cursor.row < Len(e.content) /\ e.cursor.col < Len(CurLine(e))
           THEN [e EXCEPT !.cursor.col = e.cursor.col + 1] ELSE e
      [] OTHER -> e

DIY_handleArrowKey(e, direction) == DIY_adjustViewport(DIY_Move(e, direction))

\* the cases of handleNormalKey that end with adjustViewport, before it
DIY_NormalMove(e, key) ==
    CASE key \in {"h", "j", "k", "l"} -> DIY_Move(e, key)
      [] key = "0" -> [e EXCEPT !.cursor.col = 0]
      [] key = "$" -> [e EXCEPT !.cursor.col = Len(CurLine(e))]
      [] key = "g" -> [e EXCEPT !.cursor = Pos(0, 0)]
      [] key = "G" -> [e EXCEPT !.cursor = Pos(Len(e.content) - 1,
                                               Len(e.content[Len(e.content)]))]
      [] key = "o" ->
           [e EXCEPT !.mode = ModeInsert,
                     !.content = InsertLine(e.content, e.cursor.row + 1, <<>>),
                     !.cursor = Pos(e.cursor.row + 1, 0),
                     !.saved = FALSE]
      [] key = "O" ->
           [e EXCEPT !.mode = ModeInsert,
                     !.content = InsertLine(e.content, e.cursor.row, <<>>),
                     !.cursor.col = 0,
                     !.saved = FALSE]
      [] key = "d" -> DIY_RemoveCurrent(e)
      [] key = "w" -> [e EXCEPT !.cursor = nextWord(e.content, e.cursor)]
      [] key = "b" -> [e EXCEPT !.cursor = prevWord(e.content, e.cursor)]
      [] key = "e" -> [e EXCEPT !.cursor = endOfWord(e.content, e.cursor)]

\* the keys of handleNormalKey whose case ends with adjustViewport
DIY_NormalMoveKeys ==
    {"h", "j", "k", "l", "0", "$", "g", "G", "o", "O", "d", "w", "b", "e"}

DIY_handleNormalKey(e, key) ==
    IF key \in DIY_NormalMoveKeys THEN DIY_adjustViewport(DIY_NormalMove(e, key))
    ELSE CASE key = "i" -> [e EXCEPT !.mode = ModeInsert]
           [] key = "a" ->
                [e EXCEPT !.mode = ModeInsert,
                          !.cursor.col = IF e.cursor.col < Len(CurLine(e))
                                         THEN e.cursor.col + 1 ELSE e.cursor.col]
           [] key = "A" -> [e EXCEPT !.mode = ModeInsert, !.cursor.col = Len(CurLine(e))]
           [] key = "x" -> DIY_DeleteAt(e)
           [] OTHER -> e

\* the Backspace case of handleInsertKey, before its adjustViewport
DIY_Backspace(e) ==
    IF e.cursor.col > 0
    THEN [e EXCEPT !.content = SetLine(e.content, e.cursor.row,
                                 Take(CurLine(e), e.cursor.col - 1)
                                 \o Drop(CurLine(e), e.cursor.col)),
                   !.cursor.col = e.cursor.col - 1,
                   !.saved = FALSE]
    ELSE IF e.cursor.row > 0
    THEN [e EXCEPT !.content = RemoveLine(
                                 SetLine(e.content, e.cursor.row - 1,
                                         LineAt(e.content, e.cursor.row - 1) \o CurLine(e)),
                                 e.cursor.row),
                   !.cursor = Pos(e.cursor.row - 1, Len(LineAt(e.content, e.cursor.row - 1))),
                   !.saved = FALSE]
    ELSE e

\* the Enter case of handleInsertKey, before its adjustViewport
DIY_Enter(e) ==
    [e EXCEPT !.content = InsertLine(SetLine(e.content, e.cursor.row,
                                             Take(CurLine(e), e.cursor.col)),
                                     e.cursor.row + 1, Drop(CurLine(e), e.cursor.col)),
              !.cursor = Pos(e.cursor.row + 1, 0),
              !.saved = FALSE]

\* pasteFromClipboard with a clipboard that is not empty, up to its
\* adjustViewport; the clamps after a multi-line paste change nothing
DIY_PasteInto(e, clipboard, lines) ==
    IF Len(lines) = 1
    THEN [e EXCEPT !.content = SetLine(e.content, e.cursor.row,
                                 Take(CurLine(e), e.cursor.col) \o clipboard
                                 \o Drop(CurLine(e), e.cursor.col)),
                   !.cursor.col = e.cursor.col + Len(clipboard),
                   !.saved = FALSE]
    ELSE [e EXCEPT !.content = PastedContent(e.content, e.cursor.row, e.cursor.col, lines),
                   !.cursor = Pos(e.cursor.row + Len(lines) - 1, Len(lines[Len(lines)])),
                   !.saved = FALSE]

\* the status of pasteFromClipboard: the number of lines pasted, when several
DIY_PasteStatus(e, lines) ==
    IF Len(lines) > 1 THEN DIY_setStatus(e, "Pasted lines") ELSE e

DIY_pasteFromClipboard(e, clipboard) ==
    IF clipboard = <<>> THEN DIY_setStatus(e, "Clipboard empty")
    ELSE DIY_PasteStatus(DIY_adjustViewport(DIY_PasteInto(e, clipboard, Split(clipboard))),
                         Split(clipboard))

\* the default case of handleInsertKey: a printable byte is typed
DIY_InsertChar(e, key) ==
    IF ByteOf(key) >= 32 /\ ByteOf(key) <= 126
    THEN [e EXCEPT !.content = SetLine(e.content, e.cursor.row,
                                 Take(CurLine(e), e.cursor.col) \o <<key>>
                                 \o Drop(CurLine(e), e.cursor.col)),
                   !.cursor.col = e.cursor.col + 1,
                   !.saved = FALSE]
    ELSE e

DIY_handleInsertKey(e, key, clipboard) ==
    CASE key = "ESC" ->
           [e EXCEPT !.mode = ModeNormal,
                     !.cursor.col = IF e.cursor.col > 0 THEN e.cursor.col - 1 ELSE e.cursor.col]
      [] key = "SYN" -> DIY_pasteFromClipboard(e, clipboard)
      [] key \in {"DEL", "BS"} -> DIY_adjustViewport(DIY_Backspace(e))
      [] key = "\r" -> DIY_adjustViewport(DIY_Enter(e))
      [] OTHER -> DIY_InsertChar(e, key)

\* rendered: the number of lines glamour returned, 0 when there is no renderer
\* or Render failed
DIY_handlePreviewKey(e, key, rendered) ==
    CASE key = "j" ->
           IF ~IsBlank(Join(e.content)) /\ rendered > 0
              /\ e.previewOffset < Max(0, rendered - (e.height - 3))
           THEN [e EXCEPT !.previewOffset = e.previewOffset + 1] ELSE e
      [] key = "k" ->
           IF e.previewOffset > 0 THEN [e EXCEPT !.previewOffset = e.previewOffset - 1] ELSE e
      [] key = "g" -> [e EXCEPT !.previewOffset = 0]
      [] key = "G" ->
           IF ~IsBlank(Join(e.content)) /\ rendered > 0
           THEN [e EXCEPT !.previewOffset = Max(0, rendered - (e.height - 3))] ELSE e
      [] OTHER -> e

\* the name saveFile writes to
DIY_Named(e) == IF e.filename = "" THEN [e EXCEPT !.filename = "untitled.md"] ELSE e

\* writeOk: whether os.WriteFile of the buffer succeeded
DIY_saveFile(e, writeOk) ==
    IF writeOk THEN DIY_setStatus([DIY_Named(e) EXCEPT !.saved = TRUE], "File saved")
    ELSE DIY_setStatus(DIY_Named(e), "Error saving file")

DIY_handleEditorKey(e, key, clipboard) ==
    IF e.mode = ModeNormal THEN DIY_handleNormalKey(e, key)
    ELSE DIY_handleInsertKey(e, key, clipboard)

\* handleKey: the editor after the key; whether it asks to exit is DIY_Quits
DIY_handleKey(e, key, env) ==
    CASE key = "DC1" -> e
      [] key = "DC3" -> DIY_saveFile(e, env.writeOk)
      [] key = "\t" -> ToggleTab(e)
      [] OTHER ->
           IF e.activeTab = TabEditor THEN DIY_handleEditorKey(e, key, env.clipboard)
           ELSE DIY_handlePreviewKey(e, key, env.rendered)

DIY_Quits(key) == key = "DC1"

\* the arrow cases of Run: direction is the vi key of the arrow
DIY_Arrow(e, direction) ==
    IF e.activeTab = TabEditor
    THEN IF e.mode = ModeInsert THEN DIY_handleArrowKey(e, direction)
         ELSE DIY_handleNormalKey(e, direction)
    ELSE e

\* the lone ESC case of Run
DIY_Escape(e) ==
    IF e.activeTab = TabEditor /\ e.mode = ModeInsert
    THEN DIY_adjustViewport(
           [e EXCEPT !.mode = ModeNormal,
                     !.cursor.col = IF e.cursor.col > 0 THEN e.cursor.col - 1
                                    ELSE e.cursor.col])
    ELSE e

\* the body of Run's loop for one read of stdin: buffer holds the n >= 1
\* bytes read
DIY_Read(e, buffer, env) ==
    IF buffer[1] = "ESC" /\ Len(buffer) >= 3 /\ buffer[2] = "["
         /\ buffer[3] \in {"3", "A", "B", "C", "D"}
    THEN CASE buffer[3] = "3" ->
                IF e.activeTab = TabEditor /\ e.mode = ModeInsert
                THEN DIY_handleDeleteKey(e) ELSE e
           [] buffer[3] = "A" -> DIY_Arrow(e, "k")
           [] buffer[3] = "B" -> DIY_Arrow(e, "j")
           [] buffer[3] = "C" -> DIY_Arrow(e, "l")
           [] buffer[3] = "D" -> DIY_Arrow(e, "h")
    ELSE IF buffer[1] = "ESC" /\ Len(buffer) = 1 THEN DIY_Escape(e)
    ELSE DIY_handleKey(e, buffer[1], env)

\* whether the read ends Run
DIY_ReadQuits(buffer) ==
    /\ ~(buffer[1] = "ESC" /\ Len(buffer) >= 3 /\ buffer[2] = "["
           /\ buffer[3] \in {"3", "A", "B", "C", "D"})
    /\ ~(buffer[1] = "ESC" /\ Len(buffer) = 1)
    /\ DIY_Quits(buffer[1])

\* one turn of Run's loop; renderStatusBar drops a status message that has
\* expired, which a message set in this turn has not
DIY_Turn(e, buffer, env) == DIY_Read(ClearExpired(e, env.expired), buffer, env)

(* ----------------------- DIY editor: loading -------------------------- *)

\* dropCR of bufio.ScanLines: one trailing carriage return is dropped
DropCR(line) ==
    IF Len(line) > 0 /\ line[Len(line)] = "\r" THEN Take(line, Len(line) - 1) ELSE line

\* the lines bufio.Scanner yields with ScanLines: the text is cut at every
\* newline, a last line that is empty is not yielded
ScanLines(data) ==
    IF Split(data)[Len(Split(data))] = <<>>
    THEN [i \in 1..(Len(Split(data)) - 1) |-> DropCR(Split(data)[i])]
    ELSE [i \in 1..Len(Split(data)) |-> DropCR(Split(data)[i])]

\* the lines NewDIYEditor read from a file as the constructor finds it
DIY_Loaded(file) ==
    IF file.name # "" /\ file.exists /\ file.readable THEN ScanLines(file.data) ELSE <<>>

\* width, height: what getTerminalSize answered
NewDIYEditor(file, width, height) ==
    [filename |-> file.name,
     content |-> IF Len(DIY_Loaded(file)) = 0 THEN << <<>> >> ELSE DIY_Loaded(file),
     cursor |-> Pos(0, 0), mode |-> ModeNormal, activeTab |-> TabEditor,
     width |-> width, height |-> height, viewport |-> View(0, 0),
     previewOffset |-> 0, saved |-> TRUE, statusMsg |-> "",
     cursorBlink |-> FALSE, codeBlocks |-> <<>>, codeBlocksDirty |-> FALSE]

(* ------------------------------ inputs -------------------------------- *)

\* the files a session is started on
NoFile == [name |-> "", exists |-> FALSE, size |-> 0, readable |-> FALSE, data |-> <<>>]
TextFile(data) ==
    [name |-> "f.md", exists |-> TRUE, size |-> Len(data), readable |-> TRUE, data |-> data]
Files ==
    { [NoFile EXCEPT !.name = "f.md"],
      TextFile(<<>>),
      TextFile(<<NL>>),
      TextFile(<<"a", NL, "a">>) }

\* terminal sizes <<width, height>> a resize reports
Sizes == { <<4, 5>> }

GlobalKeys == {"ctrl+c", "ctrl+q", "ctrl+s", "tab", "shift+tab"}
NormalKeys == {"h", "left", "j", "down", "k", "up", "l", "right", "0", "$", "gg", "G",
               "i", "a", "A", "o", "O", "x", "dd", "w", "b", "e"}
InsertKeys == {"esc", "left", "right", "up", "down", "enter", "backspace", "delete",
               "ctrl+v", "ctrl+p", "shift+insert"}
PasteKeys == {"ctrl+v", "ctrl+p", "shift+insert"}
\* keys no table lists: single bytes and a function key
UnlistedKeys == {"d", "g", "z", " ", "f1"}
Keys == GlobalKeys \cup NormalKeys \cup InsertKeys \cup UnlistedKeys

\* the characters typed into the buffer in Insert mode
TypedChars == {"a"}

\* what the clipboard tools print, in the order they are tried: each run
\* either fails or prints a text
ToolFail == [ok |-> FALSE, out |-> <<>>]
ToolOut(t) == [ok |-> TRUE, out |-> t]
ClipTexts == { <<>>, <<"a">>, <<"a", NL>>, <<"a", NL, "a">> }
ClipRuns ==
    { <<ToolFail, ToolFail, ToolFail>> }
    \cup { <<ToolOut(t), ToolFail, ToolFail>> : t \in ClipTexts }
    \cup { <<ToolFail, ToolOut(<<"a">>), ToolFail>>, <<ToolFail, ToolFail, ToolOut(<<"a">>)>> }

\* getClipboard: the first tool that succeeds, its output without trailing newlines
getClipboard(runs) ==
    IF runs[1].ok THEN TrimRightNL(runs[1].out)
    ELSE IF runs[2].ok THEN TrimRightNL(runs[2].out)
    ELSE IF runs[3].ok THEN TrimRightNL(runs[3].out)
    ELSE <<>>

(* ------------------- sessions of the Bubbletea editor ----------------- *)

\* the buffer stays within the bounds of the model
Fits(n) ==
    /\ n.previewOffset <= MaxPreview
    /\ Len(n.content) <= MaxLines
    /\ \A i \in 1..Len(n.content) : Len(n.content[i]) <= MaxLineLen

KeyMsg(key) == [type |-> "KeyMsg", key |-> key, width |-> 0, height |-> 0]
WindowSizeMsg(w, h) == [type |-> "WindowSizeMsg", key |-> "", width |-> w, height |-> h]
BlinkMsg == [type |-> "BlinkMsg", key |-> "", width |-> 0, height |-> 0]

Env(clipboard, rendered, writeOk, expired) ==
    [clipboard |-> clipboard, rendered |-> rendered, writeOk |-> writeOk,
     rendererOk |-> TRUE, expired |-> expired]

\* whether the status message has timed out when the next event arrives
Expiry == IF ed.statusMsg # "" THEN BOOLEAN ELSE {FALSE}
\* what the surroundings may answer to a key of the Bubbletea editor
ClipboardFor(key) ==
    IF key \in PasteKeys /\ ed.activeTab = TabEditor /\ ed.mode = ModeInsert
    THEN { getClipboard(runs) : runs \in ClipRuns } ELSE { <<>> }
RenderedFor(key) == IF ed.activeTab = TabPreview THEN 0..MaxRendered ELSE {0}
WriteOkFor(key) == IF key = "ctrl+s" THEN BOOLEAN ELSE {TRUE}
\* the keys offered: in Insert mode only the characters of TypedChars are typed
Offered(key) ==
    (ed.activeTab = TabEditor /\ ed.mode = ModeInsert /\ Len(key) = 1)
        => key \in TypedChars

\* the zero value of the editor object: what ed and prev hold before a
\* constructor ran and where no history is kept
Blank ==
    [filename |-> "", content |-> <<>>, cursor |-> Pos(0, 0), mode |-> ModeNormal,
     activeTab |-> TabEditor, width |-> 0, height |-> 0, viewport |-> View(0, 0),
     previewOffset |-> 0, saved |-> FALSE, statusMsg |-> "", cursorBlink |-> FALSE,
     codeBlocks |-> <<>>, codeBlocksDirty |-> FALSE]

\* main: the model is constructed on a file, then the event loop runs
Init ==
    /\ impl = "bubbletea"
    /\ onDisk = NoFile
    /\ \E file \in Files : ed = NewModel(file)
    /\ phase = "new"
    /\ prev = Blank
    /\ last = <<>>

Live == impl = "bubbletea" /\ phase \in {"new", "running"}

\* one tea.KeyMsg through Update
KeyOf(key) ==
    /\ Live
    /\ Offered(key)
    /\ \E expired \in Expiry, clipboard \in ClipboardFor(key),
          rendered \in RenderedFor(key), writeOk \in WriteOkFor(key) :
         ed' = Update(ed, KeyMsg(key), Env(clipboard, rendered, writeOk, expired))
    /\ Fits(ed')
    /\ phase' = IF key \in {"ctrl+c", "ctrl+q"} THEN "quit" ELSE "running"
    /\ UNCHANGED <<impl, onDisk, prev, last>>

Key == \E key \in Keys : KeyOf(key)

\* one tea.WindowSizeMsg through Update
Resize ==
    /\ Live
    /\ \E size \in Sizes, expired \in Expiry :
         ed' = Update(ed, WindowSizeMsg(size[1], size[2]), Env(<<>>, 0, TRUE, expired))
    /\ phase' = "running"
    /\ UNCHANGED <<impl, onDisk, prev, last>>

\* one BlinkMsg through Update
Blink ==
    /\ Live
    /\ \E expired \in Expiry : ed' = Update(ed, BlinkMsg, Env(<<>>, 0, TRUE, expired))
    /\ phase' = "running"
    /\ UNCHANGED <<impl, onDisk, prev, last>>

Next == Key \/ Resize \/ Blink
Spec == Init /\ [][Next]_vars

(* --------------------------- the constructors ------------------------- *)

\* most bytes of a file a constructor is run on
MaxFileLen == 3

\* the bytes of those files: a letter, the line ends, a control byte
FileBytes == {"a", NL, "\r", "NUL"}

\* the texts of at most n bytes
TextsUpTo(n) == UNION { [1..k -> FileBytes] : k \in 0..n }

\* the files a constructor is run on: no name given, a name with no file, a
\* file above the size limit, a file that cannot be read, and every small file
LoadFiles ==
    { NoFile,
      [NoFile EXCEPT !.name = "f.md"],
      [TextFile(<<>>) EXCEPT !.size = MaxFileSize + 1],
      [TextFile(<<>>) EXCEPT !.readable = FALSE] }
    \cup { TextFile(data) : data \in TextsUpTo(MaxFileLen) }

\* the terminal sizes <<width, height>> getTerminalSize answers
TermSizes == { <<4, 5>>, <<80, 24>> }

InitLoad ==
    /\ impl \in {"bubbletea", "diy"}
    /\ onDisk \in LoadFiles
    /\ ed = Blank
    /\ phase = "start"
    /\ prev = Blank
    /\ last = <<>>

\* main of the Bubbletea editor calls NewModel
ConstructModel ==
    /\ impl = "bubbletea" /\ phase = "start"
    /\ ed' = NewModel(onDisk)
    /\ phase' = "new"
    /\ UNCHANGED <<impl, onDisk, prev, last>>

\* main of the DIY editor calls NewDIYEditor
ConstructDIY ==
    /\ impl = "diy" /\ phase = "start"
    /\ \E size \in TermSizes : ed' = NewDIYEditor(onDisk, size[1], size[2])
    /\ phase' = "new"
    /\ UNCHANGED <<impl, onDisk, prev, last>>

NextLoad == ConstructModel \/ ConstructDIY
SpecLoad == InitLoad /\ [][NextLoad]_vars

(* ------------------- single keys on a drawn editor -------------------- *)

\* most characters a line of a drawn buffer holds, and the buffer in all
EditLineLen == 2
EditChars == 3

\* the characters of the drawn buffers
EditBytes == {"a", "b"}

EditLines == UNION { [1..k -> EditBytes] : k \in 0..EditLineLen }

RECURSIVE CharCount(_)
CharCount(lines) == IF Len(lines) = 0 THEN 0 ELSE Len(lines[1]) + CharCount(Tail(lines))

\* the drawn buffers: one to MaxLines lines
EditBuffers ==
    { buf \in UNION { [1..n -> EditLines] : n \in 1..MaxLines } : CharCount(buf) <= EditChars }

\* the terminal the drawn editors run in
EditSize == <<4, 5>>

\* An editor holding the buffer, saved, with the cursor at cur:
\* NewModel / NewDIYEditor on a file of that text, the keys that move the
\* cursor there, enter Insert mode or switch the tab, in the terminal EditSize.
Drawn(content, cur, mode, tab) ==
    [Blank EXCEPT !.filename = "f.md", !.content = content, !.cursor = cur,
                  !.mode = mode, !.activeTab = tab,
                  !.width = EditSize[1], !.height = EditSize[2], !.saved = TRUE]

DrawnModel(content, cur, mode, tab) ==
    Scrolled([Drawn(content, cur, mode, tab) EXCEPT !.cursorBlink = TRUE])

DrawnDIY(content, cur, mode, tab) == DIY_Scrolled(Drawn(content, cur, mode, tab))

\* the keys pressed on a drawn Bubbletea editor, and the reads of the DIY one
EditKeys ==
    {"d", "dd", "g", "gg", "backspace", "tab", "shift+tab", "ctrl+s", "ctrl+c", "ctrl+q", "z",
     "x", "delete", "enter", "esc", "a"}
EditReads ==
    { <<"d">>, <<"g">>, <<"DEL">>, <<"BS">>, <<"\t">>, <<"DC3">>, <<"DC1">>, <<"z">>,
      <<"x">>, <<"ESC", "[", "3", "~">>, <<"\r">> }
\* the keys and reads that are also pressed a second time
TwiceKeys == {"d", "g", "tab", "shift+tab"}
TwiceReads == { <<"d">>, <<"g">>, <<"\t">> }
\* the pairs of different keys pressed one after the other
Sequels == { <<"esc", "a">>, <<"enter", "backspace">>, <<"z", "backspace">> }

InitEdit ==
    /\ impl \in {"bubbletea", "diy"}
    /\ onDisk = NoFile
    /\ \E content \in EditBuffers, mode \in {ModeNormal, ModeInsert},
          tab \in {TabEditor, TabPreview} :
         \E row \in 0..(Len(content) - 1) :
           \E col \in 0..Len(LineAt(content, row)) :
              ed = IF impl = "bubbletea"
                   THEN DrawnModel(content, Pos(row, col), mode, tab)
                   ELSE DrawnDIY(content, Pos(row, col), mode, tab)
    /\ phase = "running"
    /\ prev = ed
    /\ last = <<>>

\* the event is the first since prev, or the second press of a repeated one
Pressable(event, twice) ==
    /\ phase = "running"
    /\ \/ last = <<>>
       \/ Len(last) = 1 /\ last[1] = event /\ event \in twice
       \/ Len(last) = 1 /\ <<last[1], event>> \in Sequels

\* one key of EditKeys through Update
PressKey ==
    /\ impl = "bubbletea"
    /\ \E key \in EditKeys :
         /\ Pressable(key, TwiceKeys)
         /\ \E writeOk \in WriteOkFor(key) :
              ed' = Update(ed, KeyMsg(key), Env(<<>>, 0, writeOk, FALSE))
         /\ phase' = IF key \in {"ctrl+c", "ctrl+q"} THEN "quit" ELSE "running"
         /\ last' = Append(last, key)
    /\ UNCHANGED <<impl, onDisk, prev>>

\* one read of EditReads through a turn of Run's loop
PressRead ==
    /\ impl = "diy"
    /\ \E buffer \in EditReads :
         /\ Pressable(buffer, TwiceReads)
         /\ \E writeOk \in (IF buffer = <<"DC3">> THEN BOOLEAN ELSE {TRUE}) :
              ed' = DIY_Turn(ed, buffer, Env(<<>>, 0, writeOk, FALSE))
         /\ phase' = IF DIY_ReadQuits(buffer) THEN "quit" ELSE "running"
         /\ last' = Append(last, buffer)
    /\ UNCHANGED <<impl, onDisk, prev>>

NextEdit == PressKey \/ PressRead
SpecEdit == InitEdit /\ [][NextEdit]_vars

(* ---------------------- adjustViewport on its own --------------------- *)

\* the cursor coordinates and viewport offsets drawn run from -1 to these
MaxCoord == 3
MaxOffset == 2

\* buffers of 0 to MaxLines lines, a line of two characters at every other row
ViewBuffers ==
    { [i \in 1..n |-> IF i % 2 = 1 THEN <<"a", "a">> ELSE <<>>] : n \in 0..MaxLines }

\* window widths and heights: content extents of 1 and 2
ViewExtents == {0, 5}

\* DIYEditor never holds an empty buffer: its constructor and each of its
\* handlers leave at least one line
InitView ==
    /\ impl \in {"bubbletea", "diy"}
    /\ onDisk = NoFile
    /\ \E content \in ViewBuffers, row \in -1..MaxCoord, col \in -1..MaxCoord,
          w \in ViewExtents, h \in ViewExtents,
          offsetRow \in -1..MaxOffset, offsetCol \in -1..MaxOffset :
         /\ impl = "diy" => Len(content) >= 1
         /\ ed = [Blank EXCEPT !.content = content, !.cursor = Pos(row, col),
                               !.width = w, !.height = h,
                               !.viewport = View(offsetRow, offsetCol)]
    /\ phase = "running"
    /\ prev = ed
    /\ last = <<>>

\* Model.adjustViewport, called at most twice in a row
AdjustModel ==
    /\ impl = "bubbletea" /\ Len(last) < 2
    /\ ed' = adjustViewport(ed)
    /\ last' = Append(last, "adjustViewport")
    /\ UNCHANGED <<impl, onDisk, phase, prev>>

\* DIYEditor.adjustViewport, called at most twice in a row
AdjustDIY ==
    /\ impl = "diy" /\ Len(last) < 2
    /\ ed' = DIY_adjustViewport(ed)
    /\ last' = Append(last, "adjustViewport")
    /\ UNCHANGED <<impl, onDisk, phase, prev>>

NextView == AdjustModel \/ AdjustDIY
SpecView == InitView /\ [][NextView]_vars

(* ------------------- sessions of key events only ---------------------- *)

\* the event loop when only tea.KeyMsg events arrive
SpecKeys == Init /\ [][Key]_vars

(* ------------------------------ properties ---------------------------- *)

\* C1: after each key event of a session of key events the buffer has at
\* least one line, the cursor row is the index of a line and the cursor
\* column is a position of that line (0 .. its length).
C1_BufferInvariantAfterKeys ==
    phase \in {"running", "quit"} =>
        /\ Len(ed.content) >= 1
        /\ 0 <= ed.cursor.row /\ ed.cursor.row < Len(ed.content)
        /\ 0 <= ed.cursor.col
        /\ ed.cursor.col <= Len(ed.content[ed.cursor.row + 1])

\* C2: the state NewModel returns for a file it accepts (a named, existing,
\* readable file within the size limit that is not binary), before any key
\* or resize, has at least one line, and its cursor (0,0) is on a line.
C2_NewModelBufferInvariant ==
    (/\ impl = "bubbletea" /\ phase = "new"
     /\ onDisk.name # "" /\ onDisk.exists /\ onDisk.size <= MaxFileSize
     /\ onDisk.readable /\ ~isBinaryFile(onDisk.data)) =>
        /\ Len(ed.content) >= 1
        /\ ed.cursor = Pos(0, 0)

\* C3: in every reachable state of the Bubbletea editor the viewport has
\* 0 <= offsetRow <= max(0, len(content) - contentHeight) and offsetCol >= 0,
\* with contentHeight = max(1, height - 3).
C3_ViewportInvariant ==
    /\ 0 <= ed.viewport.offsetRow
    /\ ed.viewport.offsetRow <= Max(0, Len(ed.content) - Max(1, ed.height - 3))
    /\ ed.viewport.offsetCol >= 0

\* C4: after every event, with the editor tab active, the cursor is inside
\* the visible window: offsetRow <= row < offsetRow + contentHeight and
\* offsetCol <= col < offsetCol + contentWidth.
C4_CursorVisible ==
    (phase \in {"running", "quit"} /\ ed.activeTab = TabEditor) =>
        /\ ed.viewport.offsetRow <= ed.cursor.row
        /\ ed.cursor.row < ed.viewport.offsetRow + Max(1, ed.height - 3)
        /\ ed.viewport.offsetCol <= ed.cursor.col
        /\ ed.cursor.col < ed.viewport.offsetCol + Max(1, ed.width - 3)

C6_ModeMachine ==
    /\ ed.mode = ModeNormal
    /\ [][ /\ ed'.mode \in {ModeNormal, ModeInsert}
           /\ (ed.mode = ModeNormal /\ ed'.mode = ModeInsert) =>
                 /\ ed.activeTab = TabEditor
                 /\ \E key \in {"i", "a", "A", "o", "O"} : KeyOf(key)
           /\ (ed.mode = ModeInsert /\ ed'.mode = ModeNormal) =>
                 /\ ed.activeTab = TabEditor
                 /\ KeyOf("esc") ]_vars

\* Insert mode was entered
C6_InsertEntered == phase = "running" /\ ed.mode = ModeInsert /\ ed.activeTab = TabEditor

C8_TwoKeySequences ==
    (prev.mode = ModeNormal /\ prev.activeTab = TabEditor) =>
        /\ (\/ (impl = "bubbletea" /\ last \in { <<"d">>, <<"g">> })
            \/ (impl = "diy" /\ last \in { << <<"d">> >>, << <<"g">> >> })) =>
              ed = prev
        /\ (\/ (impl = "bubbletea" /\ last = <<"d", "d">>)
            \/ (impl = "diy" /\ last = << <<"d">>, <<"d">> >>)) =>
              IF Len(prev.content) > 1
              THEN /\ Len(ed.content) = Len(prev.content) - 1
                   /\ \A i \in 1..Len(ed.content) :
                        ed.content[i] =
                          prev.content[IF i <= prev.cursor.row THEN i ELSE i + 1]
              ELSE ed.content = << <<>> >>
        /\ (\/ (impl = "bubbletea" /\ last = <<"g", "g">>)
            \/ (impl = "diy" /\ last = << <<"g">>, <<"g">> >>)) =>
              ed.cursor = Pos(0, 0)

\* C9: DeleteLine (Bubbletea: the key "dd"; DIY: deleteLine, on the byte d)
\* in Normal mode on the editor tab. With more than one line the line at
\* cursor.row is removed and the others keep their order; with one line that
\* line becomes empty and the count stays 1. Afterwards cursor.row is at
\* most the new last index and cursor.col at most the new line's length.
\* On the buffer of one empty line the result is that buffer, cursor (0,0).
C9_DeleteLine ==
    (/\ prev.mode = ModeNormal /\ prev.activeTab = TabEditor
     /\ \/ (impl = "bubbletea" /\ last = <<"dd">>)
        \/ (impl = "diy" /\ last = << <<"d">> >>)) =>
        /\ IF Len(prev.content) > 1
           THEN /\ Len(ed.content) = Len(prev.content) - 1
                /\ \A i \in 1..Len(ed.content) :
                     ed.content[i] =
                       prev.content[IF i <= prev.cursor.row THEN i ELSE i + 1]
           ELSE ed.content = << <<>> >>
        /\ ed.cursor.row = Min(prev.cursor.row, Len(ed.content) - 1)
        /\ ed.cursor.col = Min(prev.cursor.col, Len(ed.content[ed.cursor.row + 1]))
        /\ prev.content = << <<>> >> => (ed.content = << <<>> >> /\ ed.cursor = Pos(0, 0))

\* the last of several lines was deleted, with the cursor beyond the end
\* of the line above
C9_LastLineDeleted ==
    /\ impl = "bubbletea" /\ last = <<"dd">>
    /\ prev.mode = ModeNormal /\ prev.activeTab = TabEditor
    /\ Len(prev.content) = MaxLines
    /\ prev.cursor.row = Len(prev.content) - 1
    /\ prev.cursor.col > Len(prev.content[Len(prev.content) - 1])

\* C10: Backspace in Insert mode on the editor tab (Bubbletea: the key
\* "backspace"; DIY: the bytes 127 and 8). With col > 0 the character at
\* col-1 is removed and col decremented; else with row > 0 the current line
\* is appended to the previous one and removed, the cursor going to
\* (row-1, old length of the previous line); at (0,0) content, cursor and
\* the saved flag stay as they are.
C10_Backspace ==
    (/\ prev.mode = ModeInsert /\ prev.activeTab = TabEditor
     /\ \/ (impl = "bubbletea" /\ last = <<"backspace">>)
        \/ (impl = "diy" /\ last \in { << <<"DEL">> >>, << <<"BS">> >> })) =>
        IF prev.cursor.col > 0
        THEN /\ ed.content =
                  [prev.content EXCEPT ![prev.cursor.row + 1] =
                     SubSeq(@, 1, prev.cursor.col - 1)
                     \o SubSeq(@, prev.cursor.col + 1, Len(@))]
             /\ ed.cursor = Pos(prev.cursor.row, prev.cursor.col - 1)
        ELSE IF prev.cursor.row > 0
        THEN /\ Len(ed.content) = Len(prev.content) - 1
             /\ \A i \in 1..Len(ed.content) :
                  ed.content[i] =
                    IF i < prev.cursor.row THEN prev.content[i]
                    ELSE IF i = prev.cursor.row
                    THEN prev.content[i] \o prev.content[i + 1]
                    ELSE prev.content[i + 1]
             /\ ed.cursor = Pos(prev.cursor.row - 1,
                                Len(prev.content[prev.cursor.row]))
        ELSE /\ ed.content = prev.content
             /\ ed.cursor = prev.cursor
             /\ ed.saved = prev.saved

\* Backspace at column 0 joined two lines that both hold text
C10_LinesJoined ==
    /\ impl = "bubbletea" /\ last = <<"backspace">>
    /\ prev.mode = ModeInsert /\ prev.activeTab = TabEditor
    /\ prev.cursor.col = 0 /\ prev.cursor.row > 0
    /\ Len(prev.content[prev.cursor.row]) > 0
    /\ Len(prev.content[prev.cursor.row + 1]) > 0

\* C11: forward delete (Bubbletea: "x" in Normal mode and "delete" in Insert
\* mode; DIY: the byte x in Normal mode and the Delete sequence in Insert
\* mode) on the editor tab never moves the cursor. With col < len(line) the
\* character at col is removed; else, when the cursor is not on the last
\* line, the next line is joined onto the current one; at the end of the
\* last line content, cursor, saved flag and stale flag stay as they are.
C11_ForwardDelete ==
    (/\ prev.activeTab = TabEditor
     /\ \/ (impl = "bubbletea" /\ last = <<"x">> /\ prev.mode = ModeNormal)
        \/ (impl = "bubbletea" /\ last = <<"delete">> /\ prev.mode = ModeInsert)
        \/ (impl = "diy" /\ last = << <<"x">> >> /\ prev.mode = ModeNormal)
        \/ (impl = "diy" /\ last = << <<"ESC", "[", "3", "~">> >>
            /\ prev.mode = ModeInsert)) =>
        /\ ed.cursor = prev.cursor
        /\ IF prev.cursor.col < Len(prev.content[prev.cursor.row + 1])
           THEN ed.content =
                  [prev.content EXCEPT ![prev.cursor.row + 1] =
                     SubSeq(@, 1, prev.cursor.col)
                     \o SubSeq(@, prev.cursor.col + 2, Len(@))]
           ELSE IF prev.cursor.row < Len(prev.content) - 1
           THEN /\ Len(ed.content) = Len(prev.content) - 1
                /\ \A i \in 1..Len(ed.content) :
                     ed.content[i] =
                       IF i < prev.cursor.row + 1 THEN prev.content[i]
                       ELSE IF i = prev.cursor.row + 1
                       THEN prev.content[i] \o prev.content[i + 1]
                       ELSE prev.content[i + 1]
           ELSE /\ ed.content = prev.content
                /\ ed.saved = prev.saved
                /\ ed.codeBlocksDirty = prev.codeBlocksDirty

\* "delete" in Insert mode removed a character in the middle of a line
C11_CharDeleted ==
    /\ impl = "bubbletea" /\ last = <<"delete">>
    /\ prev.mode = ModeInsert /\ prev.activeTab = TabEditor
    /\ prev.cursor.col = 1
    /\ Len(prev.content[prev.cursor.row + 1]) = 2
    /\ prev.content[prev.cursor.row + 1][1] # prev.content[prev.cursor.row + 1][2]

\* C12: Enter in Insert mode on the editor tab at (row, col) leaves the
\* prefix [0:col] in line row, puts the suffix [col:] in a new line right
\* after it, keeps every other line, adds exactly one line and moves the
\* cursor to (row+1, 0).
C12_Enter ==
    (/\ prev.mode = ModeInsert /\ prev.activeTab = TabEditor
     /\ \/ (impl = "bubbletea" /\ last = <<"enter">>)
        \/ (impl = "diy" /\ last = << <<"\r">> >>)) =>
        /\ Len(ed.content) = Len(prev.content) + 1
        /\ \A i \in 1..Len(ed.content) :
             ed.content[i] =
               IF i < prev.cursor.row + 1 THEN prev.content[i]
               ELSE IF i = prev.cursor.row + 1
               THEN SubSeq(prev.content[i], 1, prev.cursor.col)
               ELSE IF i = prev.cursor.row + 2
               THEN SubSeq(prev.content[i - 1], prev.cursor.col + 1,
                           Len(prev.content[i - 1]))
               ELSE prev.content[i - 1]
        /\ ed.cursor = Pos(prev.cursor.row + 1, 0)

\* Enter cut a line of two different characters between them
C12_LineSplit ==
    /\ impl = "bubbletea" /\ last = <<"enter">>
    /\ prev.mode = ModeInsert /\ prev.activeTab = TabEditor
    /\ prev.cursor.col = 1
    /\ Len(prev.content) >= 2 /\ prev.cursor.row = 0
    /\ Len(prev.content[1]) = 2 /\ prev.content[1][1] # prev.content[1][2]

\* C13: on the editor tab, esc in Insert mode decrements cursor.col when it
\* is > 0 and leaves it at 0 otherwise, with row, content and saved flag as
\* they were; "a" in Normal mode increments col only when col < len(line);
\* so esc then "a" puts the cursor back at its column when that was > 0.
C13_EscThenAppend ==
    (impl = "bubbletea" /\ prev.activeTab = TabEditor) =>
        /\ (prev.mode = ModeInsert /\ last = <<"esc">>) =>
             /\ ed.cursor.col = IF prev.cursor.col > 0 THEN prev.cursor.col - 1 ELSE 0
             /\ ed.cursor.row = prev.cursor.row
             /\ ed.content = prev.content
             /\ ed.saved = prev.saved
        /\ (prev.mode = ModeNormal /\ last = <<"a">>) =>
             /\ ed.cursor.col =
                  IF prev.cursor.col < Len(prev.content[prev.cursor.row + 1])
                  THEN prev.cursor.col + 1 ELSE prev.cursor.col
             /\ ed.cursor.row = prev.cursor.row
        /\ (prev.mode = ModeInsert /\ last = <<"esc", "a">> /\ prev.cursor.col > 0) =>
             ed.cursor = prev.cursor

\* esc then "a" were pressed with the cursor at the end of a line with text
C13_EscAppendPressed ==
    /\ impl = "bubbletea" /\ last = <<"esc", "a">>
    /\ prev.mode = ModeInsert /\ prev.activeTab = TabEditor
    /\ prev.cursor.col = 2
    /\ ed.mode = ModeInsert

(* ------------------------ one paste on an editor ---------------------- *)

\* the buffers pasted into
PasteBuffers ==
    { << <<"x", "y">> >>, << <<>> >>, << <<"a">>, <<"b", "a">> >> }

\* a text of 11 lines with a fence marker, and one of 3 lines with one
BigBlock ==
    Join(<< Fence, <<"a">>, <<"b">>, <<"c">>, <<>>, <<"a">>, <<"b">>, <<"c">>,
            <<"a">>, <<"b">>, Fence \o <<"c">> >>)
SmallBlock == Join(<< Fence, <<"a">>, Fence >>)

\* what the clipboard tools print for a paste
PasteTexts ==
    { <<>>, <<NL>>, <<"a">>, <<"a", "b">>, <<"a", NL, "b">>, <<"a", NL, "b", NL, "c">>,
      <<"a", NL, NL>>, BigBlock, SmallBlock, BigBlock \o <<NL>> }
PasteRuns ==
    { <<ToolFail, ToolFail, ToolFail>>, <<ToolFail, ToolOut(<<"a">>), ToolFail>>,
      <<ToolFail, ToolFail, ToolOut(<<NL>>)>> }
    \cup { <<ToolOut(t), ToolFail, ToolFail>> : t \in PasteTexts }

\* an editor in Insert mode on the editor tab, the cursor anywhere in the
\* buffer
InitPaste ==
    /\ impl \in {"bubbletea", "diy"}
    /\ onDisk = NoFile
    /\ \E content \in PasteBuffers :
         \E row \in 0..(Len(content) - 1) :
           \E col \in 0..Len(LineAt(content, row)) :
              ed = IF impl = "bubbletea"
                   THEN DrawnModel(content, Pos(row, col), ModeInsert, TabEditor)
                   ELSE DrawnDIY(content, Pos(row, col), ModeInsert, TabEditor)
    /\ phase = "running"
    /\ prev = ed
    /\ last = <<>>

\* one paste key through Update; runs is what the clipboard tools do
PasteKey ==
    /\ impl = "bubbletea" /\ last = <<>>
    /\ \E key \in PasteKeys, runs \in PasteRuns :
         /\ ed' = Update(ed, KeyMsg(key), Env(getClipboard(runs), 0, TRUE, FALSE))
         /\ last' = <<[key |-> key, runs |-> runs]>>
    /\ UNCHANGED <<impl, onDisk, phase, prev>>

\* the byte 22 (ctrl+v) through a turn of Run's loop
PasteRead ==
    /\ impl = "diy" /\ last = <<>>
    /\ \E runs \in PasteRuns :
         /\ ed' = DIY_Turn(ed, <<"SYN">>, Env(getClipboard(runs), 0, TRUE, FALSE))
         /\ last' = <<[key |-> <<"SYN">>, runs |-> runs]>>
    /\ UNCHANGED <<impl, onDisk, phase, prev>>

NextPaste == PasteKey \/ PasteRead
SpecPaste == InitPaste /\ [][NextPaste]_vars

\* C14: a paste of a text of n >= 2 lines at (row, col) gives the buffer
\* lines[:row] + [before+first] + middle lines + [last+after] + lines[row+1:],
\* before and after being the current line cut at col, and the cursor
\* (row+n-1, len(last)); a paste of one line inserts it at col and advances
\* col by its length. "a\nb\nc" at (0,1) in ["xy"] gives ["xa","b","cy"]
\* with cursor (2,1).
C14_Paste ==
    (Len(last) = 1 /\ getClipboard(last[1].runs) # <<>>) =>
        LET text == getClipboard(last[1].runs)
            lines == Split(text)
            n == Len(lines)
            row == prev.cursor.row
            col == prev.cursor.col
            before == SubSeq(prev.content[row + 1], 1, col)
            after == SubSeq(prev.content[row + 1], col + 1, Len(prev.content[row + 1]))
        IN  /\ IF n >= 2
               THEN /\ ed.content =
                         SubSeq(prev.content, 1, row)
                         \o << before \o lines[1] >>
                         \o SubSeq(lines, 2, n - 1)
                         \o << lines[n] \o after >>
                         \o SubSeq(prev.content, row + 2, Len(prev.content))
                    /\ ed.cursor = Pos(row + n - 1, Len(lines[n]))
               ELSE /\ ed.content =
                         [prev.content EXCEPT ![row + 1] = before \o text \o after]
                    /\ ed.cursor = Pos(row, col + Len(text))
            /\ (/\ prev.content = << <<"x", "y">> >> /\ prev.cursor = Pos(0, 1)
                /\ text = <<"a", NL, "b", NL, "c">>) =>
                  /\ ed.content = << <<"x", "a">>, <<"b">>, <<"c", "y">> >>
                  /\ ed.cursor = Pos(2, 1)

\* "a\nb\nc" was pasted at (0,1) into ["xy"]
C14_ThreeLinesPasted ==
    /\ impl = "bubbletea" /\ Len(last) = 1
    /\ last[1].runs = <<ToolOut(<<"a", NL, "b", NL, "c">>), ToolFail, ToolFail>>
    /\ prev.content = << <<"x", "y">> >> /\ prev.cursor = Pos(0, 1)
    /\ Len(ed.content) = 3

\* C15: a paste that takes the chunked path (the text holds a fence marker
\* and has more than 10 lines) leaves the content and the cursor that the
\* non-chunked multi-line paste gives on the same buffer, cursor and text.
C15_ChunkedAsPlain ==
    (/\ impl = "bubbletea" /\ Len(last) = 1
     /\ ContainsFence(getClipboard(last[1].runs))
     /\ Len(Split(getClipboard(last[1].runs))) > ChunkThreshold) =>
        /\ ed.content = PastePlain(prev, getClipboard(last[1].runs)).content
        /\ ed.cursor = PastePlain(prev, getClipboard(last[1].runs)).cursor

\* a text of 11 lines with a fence was pasted in the middle of a line
C15_BigBlockPasted ==
    /\ impl = "bubbletea" /\ Len(last) = 1
    /\ last[1].runs = <<ToolOut(BigBlock), ToolFail, ToolFail>>
    /\ prev.content = << <<"x", "y">> >> /\ prev.cursor = Pos(0, 1)
    /\ Len(ed.content) = 11
    /\ ed.statusMsg # ""

\* C16: when every clipboard tool fails (or times out) or the text read is
\* empty once its trailing newlines are cut, the paste key changes nothing:
\* content, cursor, viewport, mode, saved flag, stale flag and status are as
\* before.
C16_EmptyClipboard ==
    (/\ impl = "bubbletea" /\ Len(last) = 1
     /\ \/ \A i \in 1..3 : ~last[1].runs[i].ok
        \/ \E i \in 1..3 :
             /\ last[1].runs[i].ok
             /\ \A j \in 1..(i - 1) : ~last[1].runs[j].ok
             /\ \A k \in 1..Len(last[1].runs[i].out) : last[1].runs[i].out[k] = NL) =>
        ed = prev

\* a paste key was pressed with every clipboard tool failing
C16_ToolsFailed ==
    /\ impl = "bubbletea" /\ Len(last) = 1
    /\ last[1].runs = <<ToolFail, ToolFail, ToolFail>>
    /\ last[1].key = "ctrl+v"
    /\ prev.saved

\* C17: in every reachable state of the Bubbletea editor, codeBlocksDirty
\* false means that codeBlocks is the span list a full rebuild computes from
\* the current content; every operation that changes the content, each paste
\* path included, sets codeBlocksDirty.
C17_CleanFlagMeansFreshSpans ==
    (impl = "bubbletea" /\ ~ed.codeBlocksDirty) =>
        ed.codeBlocks = rebuildCodeBlocks([ed EXCEPT !.codeBlocksDirty = TRUE]).codeBlocks

(* -------------------- edits and renders in turn ----------------------- *)

MaxEvents == 3

\* buffers one key away from a new fence line, and one with a fence
RenderBuffers ==
    { << <<BQ, BQ>> >>, << Fence, <<"a">> >>, << <<"a">> >> }

\* window heights: too small for View to draw the editor, and large enough
RenderHeights == {5, 8}

\* edits of Insert mode; the paste key finds SmallBlock on the clipboard
RenderKeys == {BQ, "enter", "backspace", "delete", "ctrl+v"}

\* what Model.View returns, up to the text drawn
Shown(m) ==
    IF m.width = 0 \/ m.height = 0 THEN "Loading..."
    ELSE IF m.height < 6 THEN "Terminal too small"
    ELSE IF m.activeTab = TabEditor THEN "editor"
    ELSE "preview"

\* NewModel on a file holding the buffer (the span list is built there), the
\* window sized, Insert mode entered
InitRender ==
    /\ impl = "bubbletea"
    /\ onDisk = NoFile
    /\ \E content \in RenderBuffers, h \in RenderHeights :
         \E row \in 0..(Len(content) - 1) :
           \E col \in 0..Len(LineAt(content, row)) :
              ed = rebuildCodeBlocks(
                     [Scrolled([Drawn(content, Pos(row, col), ModeInsert, TabEditor)
                                  EXCEPT !.height = h, !.cursorBlink = TRUE])
                        EXCEPT !.codeBlocksDirty = TRUE])
    /\ phase = "running"
    /\ prev = Blank
    /\ last = <<>>

\* a key through Update
EditKey ==
    /\ Len(last) < MaxEvents
    /\ \E key \in RenderKeys :
         /\ ed' = Update(ed, KeyMsg(key), Env(SmallBlock, 0, TRUE, FALSE))
         /\ last' = Append(last, key)
    /\ UNCHANGED <<impl, onDisk, phase, prev>>

\* Model.View: it has a value receiver and calls neither rebuildCodeBlocks
\* nor any other method that writes to the Model; the program keeps the
\* Model it had
Render ==
    /\ Len(last) < MaxEvents
    /\ Shown(ed) \in {"Terminal too small", "editor"}
    /\ last' = Append(last, "view")
    /\ UNCHANGED <<impl, onDisk, ed, phase, prev>>

NextRender == EditKey \/ Render
SpecRender == InitRender /\ [][NextRender]_vars

\* C18: after a change of the content the span list is rebuilt no later than
\* the next render: once View has run twice in a row, codeBlocks is the span
\* list of the current content.
C18_RebuiltByNextRender ==
    (/\ impl = "bubbletea" /\ Len(last) >= 2
     /\ last[Len(last)] = "view" /\ last[Len(last) - 1] = "view") =>
        ed.codeBlocks = rebuildCodeBlocks([ed EXCEPT !.codeBlocksDirty = TRUE]).codeBlocks

(* ------------------- code spans of a drawn buffer --------------------- *)

MaxBlockLines == 4

\* lines: fence markers with and without a language, a text line, and a
\* marker that does not start its line
BlockLines ==
    { Fence, Fence \o <<" ", "g", " ">>, <<"a">>, <<" ">> \o Fence }
BlockBuffers ==
    UNION { [1..n -> BlockLines] : n \in 1..MaxBlockLines }

NoAnswer == [found |-> FALSE, lang |-> <<>>]

\* A Model holding the buffer. With the flag set codeBlocks is either empty
\* (as in NewModel, before its call of rebuildCodeBlocks) or already the
\* spans of the buffer; with the flag clear it is the spans of the buffer
\* (after loading) or empty (an empty file loaded, the buffer pasted).
InitBlocks ==
    /\ impl = "bubbletea"
    /\ onDisk = NoFile
    /\ \E content \in BlockBuffers, dirty \in BOOLEAN, fresh \in BOOLEAN :
         ed = [Drawn(content, Pos(0, 0), ModeNormal, TabEditor)
                 EXCEPT !.codeBlocksDirty = dirty,
                        !.codeBlocks =
                            IF fresh
                            THEN ScanBlocks(content, 0, FALSE,
                                            [start |-> 0, end |-> 0, lang |-> <<>>], <<>>)
                            ELSE <<>>]
    /\ phase = "running"
    /\ prev = ed
    /\ last = <<>>

\* m.rebuildCodeBlocks()
Rebuild ==
    /\ last = <<>>
    /\ ed' = rebuildCodeBlocks(ed)
    /\ prev' = ed
    /\ last' = <<[op |-> "rebuildCodeBlocks", lineNum |-> 0, answer |-> NoAnswer]>>
    /\ UNCHANGED <<impl, onDisk, phase>>

\* m.isInCodeBlock(lineNum); it reads codeBlocks and writes nothing
Ask ==
    /\ Len(last) <= 1
    /\ \A i \in 1..Len(last) : last[i].op # "isInCodeBlock"
    /\ \E lineNum \in (0 - 1)..Len(ed.content) :
         last' = Append(last, [op |-> "isInCodeBlock", lineNum |-> lineNum,
                               answer |-> isInCodeBlock(ed, lineNum)])
    /\ UNCHANGED <<impl, onDisk, ed, phase, prev>>

NextBlocks == Rebuild \/ Ask
SpecBlocks == InitBlocks /\ [][NextBlocks]_vars

\* C19: rebuildCodeBlocks with the flag set pairs the fence lines in order:
\* the (2k-1)-th fence line opens span k, its language the trimmed text after
\* the marker, the 2k-th closes it, and a last fence without a partner gives
\* a span that ends at the last line index; span k ends before span k+1
\* starts; the flag is cleared. With the flag not set codeBlocks is left as
\* it was.
C19_RebuildPairsFences ==
    (Len(last) >= 1 /\ last[1].op = "rebuildCodeBlocks") =>
        LET c == prev.content
            fences == { i \in 0..(Len(c) - 1) :
                          Len(c[i + 1]) >= 3 /\ SubSeq(c[i + 1], 1, 3) = <<BQ, BQ, BQ>> }
            nth(k) == CHOOSE f \in fences : Cardinality({ g \in fences : g <= f }) = k
            spans == (Cardinality(fences) + 1) \div 2
        IN  IF prev.codeBlocksDirty
            THEN /\ Len(ed.codeBlocks) = spans
                 /\ \A k \in 1..spans :
                      /\ ed.codeBlocks[k].start = nth(2 * k - 1)
                      /\ ed.codeBlocks[k].lang =
                           TrimSpace(SubSeq(c[nth(2 * k - 1) + 1], 4,
                                            Len(c[nth(2 * k - 1) + 1])))
                      /\ ed.codeBlocks[k].end =
                           IF 2 * k <= Cardinality(fences) THEN nth(2 * k)
                           ELSE Len(c) - 1
                 /\ \A k \in 1..(spans - 1) :
                      /\ ed.codeBlocks[k].start < ed.codeBlocks[k + 1].start
                      /\ ed.codeBlocks[k].end < ed.codeBlocks[k + 1].start
                 /\ ~ed.codeBlocksDirty
                 /\ ed.content = c
            ELSE ed = prev

\* a buffer with a closed block and a fence left open was scanned
C19_TwoSpansOneOpen ==
    /\ Len(last) >= 1 /\ last[1].op = "rebuildCodeBlocks"
    /\ prev.codeBlocksDirty /\ prev.codeBlocks = <<>>
    /\ Len(ed.codeBlocks) = 2
    /\ ed.codeBlocks[1].lang = <<"g">>
    /\ ed.codeBlocks[1].end > ed.codeBlocks[1].start + 1
    /\ ed.codeBlocks[2].start = Len(ed.content) - 1
    /\ ed.codeBlocks[2].end = Len(ed.content) - 1

\* C20 (as stated): isInCodeBlock(n) answers (true, lang) exactly when some
\* span has start < n < end, lang being that span's language; it answers
\* false for every fence line, for every line outside all spans, and for
\* every n when a fence left open is the last line of the buffer.
C20_InsideSpan ==
    (/\ Len(last) = 2 /\ last[1].op = "rebuildCodeBlocks" /\ prev.codeBlocksDirty
     /\ last[2].op = "isInCodeBlock") =>
        /\ last[2].answer.found <=>
             \E i \in 1..Len(ed.codeBlocks) :
                ed.codeBlocks[i].start < last[2].lineNum
                /\ last[2].lineNum < ed.codeBlocks[i].end
        /\ last[2].answer.found =>
             \E i \in 1..Len(ed.codeBlocks) :
                /\ ed.codeBlocks[i].start < last[2].lineNum
                /\ last[2].lineNum < ed.codeBlocks[i].end
                /\ last[2].answer.lang = ed.codeBlocks[i].lang
        /\ (/\ last[2].lineNum \in 0..(Len(ed.content) - 1)
            /\ HasFencePrefix(LineAt(ed.content, last[2].lineNum))) =>
               last[2].answer = NoAnswer
        /\ (/\ ed.codeBlocks # <<>>
            /\ ed.codeBlocks[Len(ed.codeBlocks)].start = Len(ed.content) - 1
            /\ ed.codeBlocks[Len(ed.codeBlocks)].end = Len(ed.content) - 1) =>
               last[2].answer = NoAnswer

\* C20 (amended): as above, the last case being: when a fence left open is
\* the last line of the buffer, its span holds no line, and the answer is
\* false for every n that is not strictly inside an earlier, closed span.
C20_InsideSpanOpenFenceEmpty ==
    (/\ Len(last) = 2 /\ last[1].op = "rebuildCodeBlocks" /\ prev.codeBlocksDirty
     /\ last[2].op = "isInCodeBlock") =>
        /\ last[2].answer.found <=>
             \E i \in 1..Len(ed.codeBlocks) :
                ed.codeBlocks[i].start < last[2].lineNum
                /\ last[2].lineNum < ed.codeBlocks[i].end
        /\ last[2].answer.found =>
             \E i \in 1..Len(ed.codeBlocks) :
                /\ ed.codeBlocks[i].start < last[2].lineNum
                /\ last[2].lineNum < ed.codeBlocks[i].end
                /\ last[2].answer.lang = ed.codeBlocks[i].lang
        /\ ~last[2].answer.found => last[2].answer.lang = <<>>
        /\ (/\ last[2].lineNum \in 0..(Len(ed.content) - 1)
            /\ HasFencePrefix(LineAt(ed.content, last[2].lineNum))) =>
               ~last[2].answer.found
        /\ (/\ ed.codeBlocks # <<>>
            /\ ed.codeBlocks[Len(ed.codeBlocks)].start = Len(ed.content) - 1
            /\ ed.codeBlocks[Len(ed.codeBlocks)].end = Len(ed.content) - 1
            /\ ~\E i \in 1..(Len(ed.codeBlocks) - 1) :
                  ed.codeBlocks[i].start < last[2].lineNum
                  /\ last[2].lineNum < ed.codeBlocks[i].end) =>
               ~last[2].answer.found

\* a line inside a closed block was asked for, the last line of the buffer
\* being a fence left open
C20_AskedInsideBeforeOpenFence ==
    /\ Len(last) = 2 /\ last[1].op = "rebuildCodeBlocks" /\ prev.codeBlocksDirty
    /\ last[2].op = "isInCodeBlock"
    /\ ed.content = << Fence \o <<" ", "g", " ">>, <<"a">>, Fence, Fence >>
    /\ last[2].lineNum = 1
    /\ last[2].answer = [found |-> TRUE, lang |-> <<"g">>]

(* ------------------- sessions that save and reload -------------------- *)

MaxSaveEvents == 3

\* the file at the path saveFile writes to, and the file at that path + ".bak"
OnDisk(file, bak) ==
    [name |-> file.name, exists |-> file.exists, size |-> file.size,
     readable |-> file.readable, data |-> file.data, bak |-> bak]
NoBak == [exists |-> FALSE, data |-> <<>>]
OldBak == [exists |-> TRUE, data |-> <<"b">>]

\* sessions start with no name, on a name with no file, on text files, on a
\* binary file and on a file above the size limit
SaveDisks ==
    { OnDisk(file, bak) :
        file \in { NoFile, [NoFile EXCEPT !.name = "f.md"],
                   TextFile(<<"a">>), TextFile(<<"a", NL>>),
                   TextFile(<<"a", "NUL">>),
                   [TextFile(<<"a", "b">>) EXCEPT !.size = MaxFileSize + 1] },
        bak \in { NoBak, OldBak } }

\* a faulty save: the backup is copied after the buffer was written
SavedDisk_BackupAfterWrite(disk, content, bakOk, writeOk) ==
    [name |-> disk.name,
     exists |-> disk.exists \/ writeOk,
     size |-> IF writeOk THEN Len(Join(content)) ELSE disk.size,
     readable |-> IF disk.exists THEN disk.readable ELSE writeOk,
     data |-> IF writeOk THEN Join(content) ELSE disk.data,
     bak |-> IF disk.exists /\ disk.readable /\ bakOk
             THEN [exists |-> TRUE,
                   data |-> IF writeOk THEN Join(content) ELSE disk.data]
             ELSE disk.bak]

\* The files after saveFile. If os.Stat finds the file and os.ReadFile reads
\* it, its bytes are written to the .bak path (bakOk: that write succeeded;
\* its error is dropped); then the joined buffer is written (writeOk; a
\* failed write is taken to leave the file as it was).
SavedDisk(disk, content, bakOk, writeOk) ==
    [name |-> disk.name,
     exists |-> disk.exists \/ writeOk,
     size |-> IF writeOk THEN Len(Join(content)) ELSE disk.size,
     readable |-> IF disk.exists THEN disk.readable ELSE writeOk,
     data |-> IF writeOk THEN Join(content) ELSE disk.data,
     bak |-> IF disk.exists /\ disk.readable /\ bakOk
             THEN [exists |-> TRUE, data |-> disk.data]
             ELSE disk.bak]

\* an event of the history: the editor and the files before it
Event(op, ok, bakOk) ==
    [op |-> op, ok |-> ok, bakOk |-> bakOk, before |-> ed, disk |-> onDisk]

SaveEditKeys == {"i", "a", "backspace", "enter", "esc", "dd"}
SaveEditReads == { <<"i">>, <<"a">>, <<"DEL">>, <<"\r">> }

InitSave ==
    /\ impl \in {"bubbletea", "diy"}
    /\ onDisk \in SaveDisks
    /\ ed = Blank
    /\ phase = "start"
    /\ prev = Blank
    /\ last = <<>>

\* main: the constructor, then the first window size
StartModel ==
    /\ impl = "bubbletea" /\ phase = "start"
    /\ ed' = Update(NewModel(onDisk), WindowSizeMsg(EditSize[1], EditSize[2]),
                    Env(<<>>, 0, TRUE, FALSE))
    /\ prev' = ed'
    /\ last' = <<Event("load", TRUE, TRUE)>>
    /\ phase' = "running"
    /\ UNCHANGED <<impl, onDisk>>

StartDIY ==
    /\ impl = "diy" /\ phase = "start"
    /\ ed' = NewDIYEditor(onDisk, EditSize[1], EditSize[2])
    /\ prev' = ed'
    /\ last' = <<Event("load", TRUE, TRUE)>>
    /\ phase' = "running"
    /\ UNCHANGED <<impl, onDisk>>

\* an editing key; prev stays the editor as it was loaded or last saved
EditModel ==
    /\ impl = "bubbletea" /\ phase = "running" /\ Len(last) <= MaxSaveEvents
    /\ \E key \in SaveEditKeys :
         /\ ed' = Update(ed, KeyMsg(key), Env(<<>>, 0, TRUE, FALSE))
         /\ last' = Append(last, Event(key, TRUE, TRUE))
    /\ UNCHANGED <<impl, onDisk, phase, prev>>

EditDIY ==
    /\ impl = "diy" /\ phase = "running" /\ Len(last) <= MaxSaveEvents
    /\ \E buffer \in SaveEditReads :
         /\ ed' = DIY_Turn(ed, buffer, Env(<<>>, 0, TRUE, FALSE))
         /\ last' = Append(last, Event("edit", TRUE, TRUE))
    /\ UNCHANGED <<impl, onDisk, phase, prev>>

\* ctrl+s: saveFile writes the backup and the file
SaveModel ==
    /\ impl = "bubbletea" /\ phase = "running" /\ Len(last) <= MaxSaveEvents
    /\ \E writeOk \in BOOLEAN, bakOk \in BOOLEAN :
         /\ ed' = Update(ed, KeyMsg("ctrl+s"), Env(<<>>, 0, writeOk, FALSE))
         /\ onDisk' = SavedDisk(onDisk, ed.content, bakOk, writeOk)
         /\ prev' = IF writeOk THEN ed' ELSE prev
         /\ last' = Append(last, Event("save", writeOk, bakOk))
    /\ UNCHANGED <<impl, phase>>

SaveDIY ==
    /\ impl = "diy" /\ phase = "running" /\ Len(last) <= MaxSaveEvents
    /\ \E writeOk \in BOOLEAN, bakOk \in BOOLEAN :
         /\ ed' = DIY_Turn(ed, <<"DC3">>, Env(<<>>, 0, writeOk, FALSE))
         /\ onDisk' = SavedDisk(onDisk, ed.content, bakOk, writeOk)
         /\ prev' = IF writeOk THEN ed' ELSE prev
         /\ last' = Append(last, Event("save", writeOk, bakOk))
    /\ UNCHANGED <<impl, phase>>

\* the program is left after a save and started again on the saved file
Reload ==
    /\ impl = "bubbletea" /\ phase = "running"
    /\ last[Len(last)].op = "save" /\ last[Len(last)].ok
    /\ ed' = NewModel([onDisk EXCEPT !.name = ed.filename])
    /\ last' = Append(last, Event("reload", TRUE, TRUE))
    /\ phase' = "reloaded"
    /\ UNCHANGED <<impl, onDisk, prev>>

NextSave ==
    StartModel \/ StartDIY \/ EditModel \/ EditDIY \/ SaveModel \/ SaveDIY \/ Reload
SpecSave == InitSave /\ [][NextSave]_vars

\* C21: in every reachable state the saved flag is true exactly when the
\* buffer is what the last successful save wrote or, before any save, what
\* was loaded from the file. (Sessions started on an existing file, and
\* sessions after a successful save.)
C21_SavedIffPersisted ==
    (/\ impl = "bubbletea" /\ phase = "running"
     /\ \/ last[1].disk.name # "" /\ last[1].disk.exists
        \/ \E i \in 1..Len(last) : last[i].op = "save" /\ last[i].ok) =>
        (ed.saved <=> ed.content = prev.content)

\* C23: when the write of saveFile fails the error is shown as the status
\* message and the editor is as before the save: buffer, cursor, mode,
\* filename and saved flag keep their values.
C23_FailedSaveKeepsState ==
    (/\ phase = "running" /\ Len(last) >= 2
     /\ last[Len(last)].op = "save" /\ ~last[Len(last)].ok) =>
        /\ ed.statusMsg = "Error saving file"
        /\ ed.content = last[Len(last)].before.content
        /\ ed.cursor = last[Len(last)].before.cursor
        /\ ed.mode = last[Len(last)].before.mode
        /\ ed.filename = last[Len(last)].before.filename
        /\ ed.saved = last[Len(last)].before.saved

\* C24: after a successful save to a path that held a file, the .bak path
\* holds the bytes the file had just before the save (the backup copy having
\* succeeded) and the file holds the buffer lines joined by newlines; a save
\* to a path with no file creates no .bak; a backup copy that fails prevents
\* neither the write of the file nor the setting of the saved flag.
C24_BackupThenWrite ==
    (/\ impl = "bubbletea" /\ phase = "running" /\ Len(last) >= 2
     /\ last[Len(last)].op = "save" /\ last[Len(last)].ok) =>
        /\ onDisk.exists /\ onDisk.data = Join(last[Len(last)].before.content)
        /\ ed.saved
        /\ IF last[Len(last)].disk.exists
           THEN IF last[Len(last)].disk.readable /\ last[Len(last)].bakOk
                THEN onDisk.bak = [exists |-> TRUE, data |-> last[Len(last)].disk.data]
                ELSE onDisk.bak = last[Len(last)].disk.bak
           ELSE onDisk.bak = last[Len(last)].disk.bak

\* an edited buffer was saved over the file it was loaded from
C24_SavedOverFile ==
    /\ impl = "bubbletea" /\ phase = "running" /\ Len(last) >= 2
    /\ last[Len(last)].op = "save" /\ last[Len(last)].ok /\ last[Len(last)].bakOk
    /\ last[Len(last)].disk.exists
    /\ last[Len(last)].disk.bak = OldBak
    /\ onDisk.bak.data = <<"a">>
    /\ onDisk.data = <<"a", "a">>

\* C25: saving a buffer and loading the written file with NewModel gives the
\* buffer again, except that one trailing empty line is dropped when the file
\* ends with a newline; so for every reachable buffer, those with an empty
\* last line and the buffer of one empty line included.
C25_SaveLoadRoundTrip ==
    (impl = "bubbletea" /\ phase = "reloaded") =>
        \/ ed.content = last[Len(last) - 1].before.content
        \/ /\ Len(onDisk.data) > 0 /\ onDisk.data[Len(onDisk.data)] = NL
           /\ ed.content \o << <<>> >> = last[Len(last) - 1].before.content

(* ------------------------- the word motions --------------------------- *)

MaxWordLine == 3

\* lines of letters and spaces, buffers of one and two of them
WordLines == UNION { [1..n -> {"a", " "}] : n \in 0..MaxWordLine }
WordBuffers == { <<l>> : l \in WordLines } \cup (WordLines \X WordLines)

WordKeys == {"w", "b", "e"}

\* an editor in Normal mode, the cursor anywhere in the buffer
InitWords ==
    /\ impl \in {"bubbletea", "diy"}
    /\ onDisk = NoFile
    /\ \E content \in WordBuffers :
         \E row \in 0..(Len(content) - 1) :
           \E col \in 0..Len(LineAt(content, row)) :
              ed = IF impl = "bubbletea"
                   THEN DrawnModel(content, Pos(row, col), ModeNormal, TabEditor)
                   ELSE DrawnDIY(content, Pos(row, col), ModeNormal, TabEditor)
    /\ phase = "running"
    /\ prev = ed
    /\ last = <<>>

\* w, b or e through Update; at most two in a row
WordKey ==
    /\ impl = "bubbletea" /\ Len(last) < 2
    /\ \E key \in WordKeys :
         /\ ed' = Update(ed, KeyMsg(key), Env(<<>>, 0, TRUE, FALSE))
         /\ last' = Append(last, key)
    /\ UNCHANGED <<impl, onDisk, phase, prev>>

\* the bytes w, b or e through a turn of Run's loop
WordRead ==
    /\ impl = "diy" /\ Len(last) < 2
    /\ \E key \in WordKeys :
         /\ ed' = DIY_Turn(ed, <<key>>, Env(<<>>, 0, TRUE, FALSE))
         /\ last' = Append(last, key)
    /\ UNCHANGED <<impl, onDisk, phase, prev>>

NextWords == WordKey \/ WordRead
SpecWords == InitWords /\ [][NextWords]_vars

\* C29: from a cursor strictly inside a word (on one of its characters, not
\* the first), w and then b put the cursor on the first character of that
\* word, in the same row; also when the word is the last of a line that
\* another line follows.
C29_NextThenPrevWord ==
    (/\ impl = "bubbletea" /\ last = <<"w", "b">>
     /\ prev.cursor.col >= 1 /\ prev.cursor.col < Len(prev.content[prev.cursor.row + 1])
     /\ prev.content[prev.cursor.row + 1][prev.cursor.col + 1] = "a"
     /\ prev.content[prev.cursor.row + 1][prev.cursor.col] = "a") =>
        /\ ed.cursor.row = prev.cursor.row
        /\ ed.cursor.col <= prev.cursor.col
        /\ \A c \in (ed.cursor.col + 1)..(prev.cursor.col + 1) :
              prev.content[prev.cursor.row + 1][c] = "a"
        /\ \/ ed.cursor.col = 0
           \/ prev.content[prev.cursor.row + 1][ed.cursor.col] = " "

\* C30: from a valid cursor, e puts the cursor on a character that is not
\* whitespace, unless every character from the cursor to the end of the
\* buffer is whitespace; the column reached is the last character of a word,
\* never one past it.
C30_EndOfWordOnWord ==
    (/\ last = <<"e">>
     /\ \/ \E c \in (prev.cursor.col + 1)..Len(prev.content[prev.cursor.row + 1]) :
              prev.content[prev.cursor.row + 1][c] = "a"
        \/ \E r \in (prev.cursor.row + 2)..Len(prev.content) :
              \E c \in 1..Len(prev.content[r]) : prev.content[r][c] = "a") =>
        /\ ed.cursor.col < Len(ed.content[ed.cursor.row + 1])
        /\ ed.content[ed.cursor.row + 1][ed.cursor.col + 1] = "a"
        /\ \/ ed.cursor.col + 1 = Len(ed.content[ed.cursor.row + 1])
           \/ ed.content[ed.cursor.row + 1][ed.cursor.col + 2] = " "

(* ------------- one key on a drawn editor, flags drawn too ------------- *)

\* the cursor moves of Normal mode, and those of Insert mode
PureMoves ==
    {"h", "j", "k", "l", "left", "down", "up", "right", "0", "$", "gg", "G", "w", "b", "e"}
ArrowKeys == {"left", "down", "up", "right"}

\* the keys that change the buffer: x, dd, o, O in Normal mode; a typed
\* character, enter, backspace, delete and the paste keys in Insert mode
ChangeKeys ==
    {"x", "dd", "o", "O", "z", "enter", "backspace", "delete",
     "ctrl+v", "ctrl+p", "shift+insert"}

\* a drawn Bubbletea editor on the editor tab, saved or not, its span list
\* stale or not
InitFrame ==
    /\ impl = "bubbletea"
    /\ onDisk = NoFile
    /\ \E content \in EditBuffers, mode \in {ModeNormal, ModeInsert},
          saved \in BOOLEAN, dirty \in BOOLEAN :
         \E row \in 0..(Len(content) - 1) :
           \E col \in 0..Len(LineAt(content, row)) :
              ed = [DrawnModel(content, Pos(row, col), mode, TabEditor)
                      EXCEPT !.saved = saved, !.codeBlocksDirty = dirty]
    /\ phase = "running"
    /\ prev = ed
    /\ last = <<>>

\* one key through Update; a paste key finds "a" on the clipboard
FrameKey ==
    /\ last = <<>>
    /\ \E key \in PureMoves \cup ChangeKeys :
         /\ ed' = Update(ed, KeyMsg(key), Env(<<"a">>, 0, TRUE, FALSE))
         /\ last' = <<key>>
    /\ UNCHANGED <<impl, onDisk, phase, prev>>

SpecFrame == InitFrame /\ [][FrameKey]_vars

C26_RejectedFileStartsEmpty ==
    (/\ impl = "bubbletea" /\ phase = "new"
     /\ onDisk.name # "" /\ onDisk.exists
     /\ \/ onDisk.size > 10 * 1024 * 1024
        \/ ~onDisk.readable
        \/ \E i \in 1..Len(onDisk.data) : onDisk.data[i] = "NUL") =>
        /\ ed.content = << <<>> >>
        /\ ed.cursor = Pos(0, 0)
        /\ ed.mode = ModeNormal
        /\ ed.statusMsg # ""
        /\ ~ed.saved

\* NewModel was run on a file with a zero byte in it
C26_BinaryRejected ==
    /\ impl = "bubbletea" /\ phase = "new"
    /\ onDisk.data = <<"a", NL, "NUL">>
    /\ ed.statusMsg = "Cannot edit binary file"

\* C27: NewModel with an empty filename gives the buffer [""] with saved =
\* true; with the name of a file that does not exist it gives the buffer
\* [""], that filename recorded, and saved = false.
C27_NoNameAndNewFile ==
    (impl = "bubbletea" /\ phase = "new") =>
        /\ onDisk.name = "" =>
              (ed.content = << <<>> >> /\ ed.saved /\ ed.filename = "")
        /\ (onDisk.name # "" /\ ~onDisk.exists) =>
              (ed.content = << <<>> >> /\ ed.filename = onDisk.name /\ ~ed.saved)

\* NewModel was run on a name with no file
C27_NewFileNamed ==
    /\ impl = "bubbletea" /\ phase = "new"
    /\ onDisk.name = "f.md" /\ ~onDisk.exists
    /\ ed.filename = "f.md"
    /\ ed.statusMsg = "New file"

(* --------------------------- the binary probe ------------------------- *)

MaxProbed == 4

\* bytes: a letter, a zero byte, a control byte that counts as non-printable
\* and one (tab) that does not
ProbeBytes == {"a", "NUL", "ESC", "\t"}

\* n bytes, the first k of them control bytes, the others letters
Filled(n, k) == [i \in 1..n |-> IF i <= k THEN "ESC" ELSE "a"]

\* the short texts, and texts that fill the probe window and go past it: with
\* 153 and 154 control bytes in the window (10 * 153 < 3 * 512 < 10 * 154),
\* and with zero and control bytes after the window
ProbeData ==
    UNION { [1..n -> ProbeBytes] : n \in 0..MaxProbed }
    \cup { Filled(ProbeLen, k) \o tail :
             k \in {0, 153, 154},
             tail \in { <<>>, <<"NUL">>, <<"ESC">>, Filled(200, 200) } }
    \cup { Filled(ProbeLen - 1, 153), Filled(ProbeLen - 1, 154) }

InitBinary ==
    /\ impl = "bubbletea"
    /\ \E data \in ProbeData : onDisk = TextFile(data)
    /\ ed = Blank
    /\ phase = "start"
    /\ prev = Blank
    /\ last = <<>>

\* isBinaryFile(data), as NewModel calls it on the bytes read
Probe ==
    /\ phase = "start"
    /\ last' = <<[binary |-> isBinaryFile(onDisk.data)]>>
    /\ phase' = "probed"
    /\ UNCHANGED <<impl, onDisk, ed, prev>>

SpecBinary == InitBinary /\ [][Probe]_vars

\* C28: isBinaryFile(data) is false for empty data; otherwise it is true
\* exactly when the first min(len(data), 512) bytes hold a zero byte or the
\* number n of bytes below 32 other than 9, 10 and 13 among them satisfies
\* 10*n > 3*min(len(data), 512); the bytes after the first 512 do not count.
C28_BinaryProbe ==
    (phase = "probed") =>
        LET data == onDisk.data
            window == IF Len(data) < 512 THEN Len(data) ELSE 512
            n == Cardinality({ i \in 1..window : data[i] = "ESC" })
        IN  /\ Len(data) = 0 => ~last[1].binary
            /\ Len(data) > 0 =>
                 (last[1].binary <=>
                    \/ \E i \in 1..window : data[i] = "NUL"
                    \/ 10 * n > 3 * window)
            /\ last[1].binary = isBinaryFile(SubSeq(data, 1, window))

\* a text with a zero byte right after the probe window was probed
C28_ZeroAfterWindow ==
    /\ phase = "probed"
    /\ Len(onDisk.data) = 513 /\ onDisk.data[513] = "NUL"
    /\ onDisk.data[1] = "ESC" /\ onDisk.data[153] = "ESC" /\ onDisk.data[154] = "a"
    /\ ~last[1].binary

(* ------------------- keys with blinks in between ---------------------- *)

MaxBlinkEvents == 4

BlinkKeys == {"i", "z", "enter", "esc", "x", "j", "l", "dd", "tab", "ctrl+s"}

\* The editor started on a text file and sized; prev is the same editor as
\* it would be had no BlinkMsg ever arrived. last holds the number of events
\* so far, the number of BlinkMsg among them and the number of armed timers:
\* Model.Init arms the first.
InitBlink ==
    /\ impl = "bubbletea"
    /\ onDisk = TextFile(<<"a", "b", NL, NL, "b">>)
    /\ ed = Update(NewModel(onDisk), WindowSizeMsg(EditSize[1], EditSize[2]),
                   Env(<<>>, 0, TRUE, FALSE))
    /\ phase = "running"
    /\ prev = ed
    /\ last = [events |-> 0, blinks |-> 0, armed |-> 1]

\* a key: it goes through Update, here and in the run without blinks
BlinkKey ==
    /\ last.events < MaxBlinkEvents
    /\ \E key \in BlinkKeys, writeOk \in BOOLEAN, expired \in BOOLEAN :
         /\ ed' = Update(ed, KeyMsg(key), Env(<<>>, 0, writeOk, expired))
         /\ prev' = Update(prev, KeyMsg(key), Env(<<>>, 0, writeOk, expired))
         /\ last' = [last EXCEPT !.events = last.events + 1,
                                 !.armed = last.armed + Ticks(KeyMsg(key))]
    /\ UNCHANGED <<impl, onDisk, phase>>

\* an armed timer fires: its BlinkMsg goes through Update
BlinkTick ==
    /\ last.events < MaxBlinkEvents
    /\ last.armed > 0
    /\ \E expired \in BOOLEAN :
         ed' = Update(ed, BlinkMsg, Env(<<>>, 0, TRUE, expired))
    /\ last' = [events |-> last.events + 1, blinks |-> last.blinks + 1,
                armed |-> last.armed - 1 + Ticks(BlinkMsg)]
    /\ UNCHANGED <<impl, onDisk, phase, prev>>

NextBlink == BlinkKey \/ BlinkTick
SpecBlink == InitBlink /\ [][NextBlink]_vars

\* C31: a Blink event toggles cursorBlink and arms exactly one next Blink;
\* it changes neither buffer, cursor, viewport, mode, tab nor saved flag, so
\* whatever the interleaving of Blink events with the keys, these are what
\* the keys alone produce.
C31_BlinkOnlyBlinks ==
    /\ last.armed = 1
    /\ ed.content = prev.content
    /\ ed.cursor = prev.cursor
    /\ ed.viewport = prev.viewport
    /\ ed.mode = prev.mode
    /\ ed.activeTab = prev.activeTab
    /\ ed.saved = prev.saved
    /\ ed.codeBlocksDirty = prev.codeBlocksDirty
    /\ ed.previewOffset = prev.previewOffset
    /\ ed.cursorBlink = IF last.blinks % 2 = 0 THEN prev.cursorBlink ELSE ~prev.cursorBlink

\* two blinks arrived among the keys that scrolled the editor
C31_BlinkedWhileScrolling ==
    /\ last.blinks = 2 /\ last.events = 4
    /\ ed.viewport.offsetRow > 0
    /\ ed.cursor.row = 2

\* C32: prevWord steps back one column (to the end of the previous line from
\* column 0 of a later row), skips whitespace backward, skips the word
\* backward and steps forward one if it stands on whitespace: from
\* (row > 0, col 0) with a word in the previous line the result is the start
\* of the last word of that line; from (0,0) the result is (0,0).
C32_PrevWordSteps ==
    (last = <<"b">>) =>
        /\ prev.cursor = Pos(0, 0) => ed.cursor = Pos(0, 0)
        /\ (/\ prev.cursor.row > 0 /\ prev.cursor.col = 0
            /\ \E c \in 1..Len(prev.content[prev.cursor.row]) :
                  prev.content[prev.cursor.row][c] = "a") =>
              /\ ed.cursor.row = prev.cursor.row - 1
              /\ ed.cursor.col < Len(prev.content[prev.cursor.row])
              /\ prev.content[prev.cursor.row][ed.cursor.col + 1] = "a"
              /\ \/ ed.cursor.col = 0
                 \/ prev.content[prev.cursor.row][ed.cursor.col] = " "
              /\ \A d \in (ed.cursor.col + 2)..Len(prev.content[prev.cursor.row]) :
                    ~(/\ prev.content[prev.cursor.row][d] = "a"
                      /\ prev.content[prev.cursor.row][d - 1] = " ")

\* C33: nextWord from (row, col) skips the rest of the token under the cursor
\* and the whitespace after it; if that reaches the end of the line and a
\* next line exists, the result is in row+1 at its first column that is not
\* whitespace (column 0 for an empty line); with no next line it is
\* (row, len(line)). The result is a valid position, not before the start.
C33_NextWordSteps ==
    (last = <<"w">>) =>
        LET row == prev.cursor.row
            col == prev.cursor.col
            line == prev.content[row + 1]
            \* the first column from col on that is not a letter (or the end)
            t1 == CHOOSE c \in col..Len(line) :
                     /\ c = Len(line) \/ line[c + 1] = " "
                     /\ \A d \in col..(c - 1) : line[d + 1] = "a"
            \* the first column from t1 on that is not a space (or the end)
            t2 == CHOOSE c \in t1..Len(line) :
                     /\ c = Len(line) \/ line[c + 1] = "a"
                     /\ \A d \in t1..(c - 1) : line[d + 1] = " "
        IN  /\ IF t2 < Len(line) THEN ed.cursor = Pos(row, t2)
               ELSE IF row + 1 < Len(prev.content)
               THEN /\ ed.cursor.row = row + 1
                    /\ ed.cursor.col \in 0..Len(prev.content[row + 2])
                    /\ \A d \in 1..ed.cursor.col : prev.content[row + 2][d] = " "
                    /\ \/ ed.cursor.col = Len(prev.content[row + 2])
                       \/ prev.content[row + 2][ed.cursor.col + 1] = "a"
               ELSE ed.cursor = Pos(row, Len(line))
            /\ ed.cursor.row \in 0..(Len(ed.content) - 1)
            /\ ed.cursor.col \in 0..Len(ed.content[ed.cursor.row + 1])
            /\ \/ ed.cursor.row > row
               \/ ed.cursor.row = row /\ ed.cursor.col >= col
            /\ ed.content = prev.content

\* w was pressed on the last word of a line, the next line starting with a
\* space
C33_WordOnNextLine ==
    /\ impl = "bubbletea" /\ last = <<"w">>
    /\ prev.content = << <<"a", "a">>, <<" ", "a">> >> /\ prev.cursor = Pos(0, 1)
    /\ ed.cursor = Pos(1, 1)

(* ------------------- one word motion, again and again ----------------- *)

\* Nothing is open yet; phase will name the key that is pressed for the
\* rest of the run.
InitRepeat ==
    /\ impl = "bubbletea"
    /\ onDisk = NoFile
    /\ ed = Blank
    /\ phase = "start"
    /\ prev = Blank
    /\ last = <<>>

\* the editor as one more press of the key leaves it
Pressed(m, key) == Update(m, KeyMsg(key), Env(<<>>, 0, TRUE, FALSE))

\* A Bubbletea editor in Normal mode, the cursor anywhere in the buffer.
\* prev looks one press ahead of ed.
OpenRepeat ==
    /\ phase = "start"
    /\ \E content \in WordBuffers :
         \E row \in 0..(Len(content) - 1) :
           \E col \in 0..Len(LineAt(content, row)) :
              ed' = DrawnModel(content, Pos(row, col), ModeNormal, TabEditor)
    /\ phase' \in {"w", "b"}
    /\ prev' = Pressed(ed', phase')
    /\ UNCHANGED <<impl, onDisk, last>>

PressW ==
    /\ phase = "w"
    /\ ed' = Pressed(ed, "w")
    /\ prev' = Pressed(ed', "w")
    /\ UNCHANGED <<impl, onDisk, phase, last>>

PressB ==
    /\ phase = "b"
    /\ ed' = Pressed(ed, "b")
    /\ prev' = Pressed(ed', "b")
    /\ UNCHANGED <<impl, onDisk, phase, last>>

NextRepeat == OpenRepeat \/ PressW \/ PressB
SpecRepeat == InitRepeat /\ [][NextRepeat]_vars

\* The key is pressed again as long as the run lasts: a press that would
\* change the editor is not put off for ever. The press is named by its
\* outcome prev, which saves evaluating Update under ENABLED.
PressAgain == phase # "start" /\ ed' = prev
SpecRepeatLive == SpecRepeat /\ WF_ed(PressAgain)

\* C34: pressing w again and again reaches (last row, length of the last
\* line) after finitely many presses and stays there; pressing b again and
\* again moves the cursor strictly back in (row, col) order until it is at
\* (0,0), and stays there. Neither motion wraps around or changes the text.
C34_RepeatedWordMotion ==
    /\ <>[](/\ phase = "w" =>
                 ed.cursor = Pos(Len(ed.content) - 1, Len(ed.content[Len(ed.content)]))
            /\ phase = "b" => ed.cursor = Pos(0, 0))
    /\ [](phase # "start" => prev = Pressed(ed, phase))
    /\ [][phase # "start" =>
            /\ phase = "w" =>
                 \/ ed'.cursor.row > ed.cursor.row
                 \/ ed'.cursor.row = ed.cursor.row /\ ed'.cursor.col > ed.cursor.col
            /\ phase = "b" =>
                 \/ ed'.cursor.row < ed.cursor.row
                 \/ ed'.cursor.row = ed.cursor.row /\ ed'.cursor.col < ed.cursor.col
            /\ ed'.content = ed.content]_vars

\* w was pressed until the cursor stood at the end of a buffer whose first
\* line is empty
C34_EndReached ==
    /\ phase = "w"
    /\ ed.content = << <<>>, <<"a", " ", "a">> >>
    /\ ed.cursor = Pos(1, 3)
    /\ prev = ed

(* ------------------- keys no table lists ------------------------------ *)

MaxPrepared == 2

\* keys pressed before the unlisted one, to bring the editor somewhere
PrepareKeys == {"i", "esc", "a", "enter", "x", "j", "l", "ctrl+s"}

\* keys the table of the mode does not list: in Normal mode single bytes, a
\* digit and longer names; in Insert mode names longer than one byte
UnlistedIn(mode) ==
    IF mode = ModeNormal THEN {"z", "1", "d", "f1", "ctrl+a"}
    ELSE {"f1", "ctrl+a", "home"}

\* main has constructed the model; the event loop starts
InitUnknown ==
    /\ impl = "bubbletea"
    /\ onDisk = NoFile
    /\ \E file \in Files : ed = NewModel(file)
    /\ phase = "new"
    /\ prev = Blank
    /\ last = <<>>

\* the terminal reports its size
PrepareSize ==
    /\ phase = "new"
    /\ Len(last) < MaxPrepared
    /\ ed' = Update(ed, WindowSizeMsg(EditSize[1], EditSize[2]), Env(<<>>, 0, TRUE, FALSE))
    /\ last' = Append(last, "size")
    /\ UNCHANGED <<impl, onDisk, phase, prev>>

\* a listed key
PrepareKey ==
    /\ phase = "new"
    /\ Len(last) < MaxPrepared
    /\ \E key \in PrepareKeys, writeOk \in BOOLEAN :
         /\ ed' = Update(ed, KeyMsg(key), Env(<<>>, 0, writeOk, FALSE))
         /\ last' = Append(last, key)
    /\ UNCHANGED <<impl, onDisk, phase, prev>>

\* a key the table of the current mode does not list; prev is the editor
\* before it
UnlistedKey ==
    /\ phase = "new"
    /\ ed.activeTab = TabEditor
    /\ \E key \in UnlistedIn(ed.mode) :
         /\ ed' = Update(ed, KeyMsg(key), Env(<<>>, 0, TRUE, FALSE))
         /\ last' = Append(last, key)
    /\ prev' = ed
    /\ phase' = "pressed"
    /\ UNCHANGED <<impl, onDisk>>

NextUnknown == PrepareSize \/ PrepareKey \/ UnlistedKey
SpecUnknown == InitUnknown /\ [][NextUnknown]_vars

\* C35: a key that the key table of the current mode does not list leaves
\* the whole editor state as it was: in Normal mode every unlisted key, in
\* Insert mode every key with a name longer than one byte that is not a
\* listed special key.
C35_UnlistedKeyNoOp ==
    phase = "pressed" => ed = prev

(* ------------------- keys on the Preview tab -------------------------- *)

MaxPreviewKeys == 2

PreviewBuffers == { << <<"a">> >>, << <<"a", "b">>, <<>>, <<"b">> >> }

\* what is pressed on the Preview tab: every key but the global ones
PreviewKeys == (NormalKeys \cup InsertKeys \cup UnlistedKeys \cup {"a"}) \ GlobalKeys
PreviewReads ==
    { <<"j">>, <<"k">>, <<"g">>, <<"G">>, <<"x">>, <<"i">>, <<"d">>, <<"o">>, <<"a">>,
      <<"ESC">>, <<"\r">>, <<"DEL">>, <<"SYN">>,
      <<"ESC", "[", "3", "~">>, <<"ESC", "[", "A">>, <<"ESC", "[", "B">> }

\* the lines glamour returns for the preview
PreviewRendered == {0, 7}

\* an editor of either program on the Editor tab, in either mode
InitPreview ==
    /\ impl \in {"bubbletea", "diy"}
    /\ onDisk = NoFile
    /\ \E content \in PreviewBuffers, mode \in {ModeNormal, ModeInsert} :
         \E row \in 0..(Len(content) - 1) :
           \E col \in 0..Len(LineAt(content, row)) :
              ed = IF impl = "bubbletea"
                   THEN DrawnModel(content, Pos(row, col), mode, TabEditor)
                   ELSE DrawnDIY(content, Pos(row, col), mode, TabEditor)
    /\ phase = "editor"
    /\ prev = Blank
    /\ last = <<>>

\* tab (or shift+tab) on the Editor tab; prev keeps the editor before it
ToPreview ==
    /\ phase = "editor"
    /\ \/ /\ impl = "bubbletea"
          /\ \E key \in {"tab", "shift+tab"} :
               ed' = Update(ed, KeyMsg(key), Env(<<>>, 0, TRUE, FALSE))
       \/ /\ impl = "diy"
          /\ ed' = DIY_Turn(ed, <<"\t">>, Env(<<>>, 0, TRUE, FALSE))
    /\ prev' = ed
    /\ phase' = "preview"
    /\ UNCHANGED <<impl, onDisk, last>>

PreviewKey ==
    /\ impl = "bubbletea"
    /\ phase = "preview"
    /\ Len(last) < MaxPreviewKeys
    /\ \E key \in PreviewKeys, rendered \in PreviewRendered :
         /\ ed' = Update(ed, KeyMsg(key), Env(<<"a">>, rendered, TRUE, FALSE))
         /\ last' = Append(last, key)
    /\ UNCHANGED <<impl, onDisk, phase, prev>>

PreviewRead ==
    /\ impl = "diy"
    /\ phase = "preview"
    /\ Len(last) < MaxPreviewKeys
    /\ \E buffer \in PreviewReads, rendered \in PreviewRendered :
         /\ ed' = DIY_Turn(ed, buffer, Env(<<"a">>, rendered, TRUE, FALSE))
         /\ last' = Append(last, buffer)
    /\ UNCHANGED <<impl, onDisk, phase, prev>>

\* tab on the Preview tab
ToEditor ==
    /\ phase = "preview"
    /\ \/ /\ impl = "bubbletea"
          /\ \E key \in {"tab", "shift+tab"} :
               ed' = Update(ed, KeyMsg(key), Env(<<>>, 0, TRUE, FALSE))
       \/ /\ impl = "diy"
          /\ ed' = DIY_Turn(ed, <<"\t">>, Env(<<>>, 0, TRUE, FALSE))
    /\ phase' = "back"
    /\ UNCHANGED <<impl, onDisk, prev, last>>

NextPreview == ToPreview \/ PreviewKey \/ PreviewRead \/ ToEditor
SpecPreview == InitPreview /\ [][NextPreview]_vars

\* C36: on the Preview tab a key other than the global ones reaches no
\* editor handler: content, cursor, viewport, mode, saved flag and stale flag
\* are what they were before the switch to Preview, whatever was pressed
\* there; previewOffset is never negative; and after the switch back the
\* Editor tab is active in the mode it was left in.
C36_PreviewKeysScrollOnly ==
    phase \in {"preview", "back"} =>
        /\ ed.content = prev.content
        /\ ed.cursor = prev.cursor
        /\ ed.viewport = prev.viewport
        /\ ed.mode = prev.mode
        /\ ed.saved = prev.saved
        /\ ed.codeBlocksDirty = prev.codeBlocksDirty
        /\ ed.previewOffset >= 0
        /\ ed.activeTab = IF phase = "preview" THEN TabPreview ELSE TabEditor

\* x pressed on the Preview tab of an editor left in Insert mode, then the
\* preview scrolled down, then back to the editor
C36_ScrolledAndBack ==
    /\ impl = "bubbletea"
    /\ phase = "back"
    /\ last = <<"x", "j">>
    /\ prev.mode = ModeInsert
    /\ ed.previewOffset = 1

\* the same on the DIY editor: a lone ESC, then G
C36_ReadsOnPreview ==
    /\ impl = "diy"
    /\ phase = "preview"
    /\ last = << <<"ESC">>, <<"G">> >>
    /\ prev.mode = ModeInsert
    /\ ed.previewOffset > 0

(* ------------------- the buffer as one text --------------------------- *)

\* the offset of the cursor in strings.Join(lines, "\n")
FlatOffset(lines, cur) ==
    Len(Join(SubSeq(lines, 1, cur.row))) + (IF cur.row > 0 THEN 1 ELSE 0) + cur.col

\* text with c put in at offset p, and with the character at offset p removed
TextInsert(text, p, c) == SubSeq(text, 1, p) \o <<c>> \o SubSeq(text, p + 1, Len(text))
TextRemove(text, p) == SubSeq(text, 1, p) \o SubSeq(text, p + 2, Len(text))

\* the editor m holds the text with the cursor at offset p
Holds(m, text, p) == Join(m.content) = text /\ FlatOffset(m.content, m.cursor) = p

\* what one editing key makes of the text and the offset p
TypedInto(m, text, p, c) == Holds(m, TextInsert(text, p, c), p + 1)
RemovedBefore(m, text, p) ==
    IF p = 0 THEN Holds(m, text, 0) ELSE Holds(m, TextRemove(text, p - 1), p - 1)
RemovedAt(m, text, p) ==
    IF p = Len(text) THEN Holds(m, text, p) ELSE Holds(m, TextRemove(text, p), p)

\* C37: the line buffer refines a flat text T (the lines joined by newlines)
\* with the cursor at an offset p: typing c puts c in at p and leaves the
\* cursor at p+1; Enter puts a newline in at p (p+1); Backspace removes the
\* character at p-1 (p-1; nothing at p = 0); x and Delete remove the
\* character at p and leave the cursor at p (nothing at p = len(T)).
C37_FlatTextRefinement ==
    (Len(last) = 1 /\ prev.activeTab = TabEditor /\ impl = "bubbletea") =>
        /\ (prev.mode = ModeInsert /\ last[1] \in {"z", "a"}) =>
              TypedInto(ed, Join(prev.content), FlatOffset(prev.content, prev.cursor), last[1])
        /\ (prev.mode = ModeInsert /\ last[1] = "enter") =>
              TypedInto(ed, Join(prev.content), FlatOffset(prev.content, prev.cursor), NL)
        /\ (prev.mode = ModeInsert /\ last[1] = "backspace") =>
              RemovedBefore(ed, Join(prev.content), FlatOffset(prev.content, prev.cursor))
        /\ (prev.mode = ModeInsert /\ last[1] = "delete") =>
              RemovedAt(ed, Join(prev.content), FlatOffset(prev.content, prev.cursor))
        /\ (prev.mode = ModeNormal /\ last[1] = "x") =>
              RemovedAt(ed, Join(prev.content), FlatOffset(prev.content, prev.cursor))

\* Backspace at the start of the second line of ["a", "b"]: the newline at
\* offset 1 went and the cursor is at offset 1
C37_NewlineRemoved ==
    /\ impl = "bubbletea"
    /\ last = <<"backspace">>
    /\ prev.mode = ModeInsert /\ prev.activeTab = TabEditor
    /\ prev.content = << <<"a">>, <<"b">> >>
    /\ prev.cursor = Pos(1, 0)
    /\ ed.content = << <<"a", "b">> >>
    /\ ed.cursor = Pos(0, 1)

\* C38: in Insert mode Enter followed by Backspace, and a typed character
\* followed by Backspace, give back the content and the cursor there were
\* before the two keys (the saved flag is not given back).
C38_UndoneByBackspace ==
    (/\ impl = "bubbletea" /\ Len(last) = 2
     /\ prev.activeTab = TabEditor /\ prev.mode = ModeInsert
     /\ last \in { <<"enter", "backspace">>, <<"z", "backspace">> }) =>
        /\ ed.content = prev.content
        /\ ed.cursor = prev.cursor

\* Enter in the middle of the line "ab", then Backspace: one line again,
\* the cursor where it was, the buffer marked as changed
C38_SplitAndJoined ==
    /\ impl = "bubbletea"
    /\ last = <<"enter", "backspace">>
    /\ prev.activeTab = TabEditor /\ prev.mode = ModeInsert
    /\ prev.content = << <<"a", "b">> >> /\ prev.cursor = Pos(0, 1)
    /\ prev.saved
    /\ ed.content = prev.content /\ ed.cursor = prev.cursor
    /\ ~ed.saved

\* NewModel refuses the file: it is above the size limit, or read and binary
Refused(disk) ==
    /\ disk.name # "" /\ disk.exists
    /\ \/ disk.size > MaxFileSize
       \/ disk.readable /\ isBinaryFile(disk.data)

\* C39: the bytes of a file NewModel refused to load stay recoverable for
\* the rest of the session: after every sequence of keys, repeated saves
\* included, they are at the path or at the path + ".bak".
C39_RefusedFileRecoverable ==
    (impl = "bubbletea" /\ phase = "running" /\ Refused(last[1].disk)) =>
        \/ onDisk.data = last[1].disk.data
        \/ onDisk.bak.exists /\ onDisk.bak.data = last[1].disk.data

(* ------------------- the two editors side by side --------------------- *)

MaxBothKeys == 3

BothBuffers ==
    { << <<"a">> >>, << <<"a", "b">>, <<>> >>, << <<" ", "a">>, <<"a">> >> }

\* the keys both editors bind, by their Bubbletea names; z is typed and
\* ctrl+v pastes
SharedKeys ==
    {"h", "j", "k", "l", "0", "$", "G", "w", "b", "e", "i", "a", "A", "o", "O", "x",
     "esc", "enter", "backspace", "delete", "z", "ctrl+v"}

\* the bytes the terminal sends for the key
BytesOf(key) ==
    CASE key = "esc" -> <<"ESC">>
      [] key = "enter" -> <<"\r">>
      [] key = "backspace" -> <<"DEL">>
      [] key = "delete" -> <<"ESC", "[", "3", "~">>
      [] key = "ctrl+v" -> <<"SYN">>
      [] OTHER -> <<key>>

BothClips == { <<>>, <<"a">>, <<"a", NL, "b">>, <<"a", "\r", NL, "b">>, BigBlock }

\* ed is the Bubbletea editor and prev the DIY editor, drawn on the same
\* buffer with the same cursor, in Normal mode on the Editor tab
InitBoth ==
    /\ impl = "both"
    /\ onDisk = NoFile
    /\ \E content \in BothBuffers :
         \E row \in 0..(Len(content) - 1) :
           \E col \in 0..Len(LineAt(content, row)) :
              /\ ed = DrawnModel(content, Pos(row, col), ModeNormal, TabEditor)
              /\ prev = DrawnDIY(content, Pos(row, col), ModeNormal, TabEditor)
    /\ phase = "running"
    /\ last = <<>>

\* the same key goes to both editors, with the same clipboard
BothKey ==
    /\ Len(last) < MaxBothKeys
    /\ \E key \in SharedKeys, clipboard \in BothClips :
         /\ key # "ctrl+v" => clipboard = <<"a">>
         /\ ed' = Update(ed, KeyMsg(key), Env(clipboard, 0, TRUE, FALSE))
         /\ prev' = DIY_Turn(prev, BytesOf(key), Env(clipboard, 0, TRUE, FALSE))
         /\ last' = Append(last, key)
    /\ UNCHANGED <<impl, onDisk, phase>>

SpecBoth == InitBoth /\ [][BothKey]_vars

====
